---- MODULE Spec2Model ----
(***************************************************************************)
(* Country inference and English-speaker labelling of author profiles      *)
(* (add_english_labels.py, country_matching.py).                           *)
(*                                                                         *)
(* Text is modelled as a sequence of one-character strings, so that        *)
(* lower(), strip(), split(), join(), sorted() and substring tests are     *)
(* computed as Python computes them.  A table cell is either NaN           *)
(* (isna = TRUE) or carries a text.                                        *)
(***************************************************************************)
EXTENDS Integers, Sequences, FiniteSets, TLC

----------------------------------------------------------------------------
(* Bounds of the model *)

\* companion rows that follow the subject row in the author table
MaxCompanions == 1

----------------------------------------------------------------------------
(* Python str operations on Text *)

UpperChars == <<"A","B","C","D","E","F","G","H","I","J","K","L","M","N","O","P","Q","R","S","T","U","V","W","X","Y","Z">>
LowerChars == <<"a","b","c","d","e","f","g","h","i","j","k","l","m","n","o","p","q","r","s","t","u","v","w","x","y","z">>
DigitChars == <<"0","1","2","3","4","5","6","7","8","9">>

\* code-point order of the characters the model uses (for sorted())
AsciiOrder == <<" ","-",".","0","1","2","3","4","5","6","7","8","9",";","A","B","C","D","E","F","G","H","I","J","K","L","M","N","O","P","Q","R","S","T","U","V","W","X","Y","Z","_","a","b","c","d","e","f","g","h","i","j","k","l","m","n","o","p","q","r","s","t","u","v","w","x","y","z","{","}">>

Range(s) == {s[i] : i \in 1..Len(s)}

Ord(c) == CHOOSE i \in 1..Len(AsciiOrder) : AsciiOrder[i] = c

LowerChar(c) ==
  IF c \in Range(UpperChars)
  THEN LowerChars[CHOOSE i \in 1..Len(UpperChars) : UpperChars[i] = c]
  ELSE c

\* str.lower()
Lower(s) == [i \in 1..Len(s) |-> LowerChar(s[i])]

IsSpace(c) == c \in {" ", "\t", "\n"}

\* \w of the re module
IsWordChar(c) == c \in Range(UpperChars) \cup Range(LowerChars) \cup Range(DigitChars) \cup {"_"}

RECURSIVE LStrip(_)
LStrip(s) == IF s # <<>> /\ IsSpace(Head(s)) THEN LStrip(Tail(s)) ELSE s

RECURSIVE RStrip(_)
RStrip(s) == IF s # <<>> /\ IsSpace(s[Len(s)]) THEN RStrip(SubSeq(s, 1, Len(s) - 1)) ELSE s

\* str.strip()
Strip(s) == RStrip(LStrip(s))

\* sub in s, at position i
OccursAt(sub, s, i) == i + Len(sub) - 1 <= Len(s) /\ SubSeq(s, i, i + Len(sub) - 1) = sub

\* Python's `sub in s`
Contains(sub, s) == \E i \in 1..(Len(s) + 1) : OccursAt(sub, s, i)

\* str.startswith
StartsWith(s, prefix) == OccursAt(prefix, s, 1)

\* str.replace(w, ''), leftmost non-overlapping occurrences
RECURSIVE RemoveAll(_, _)
RemoveAll(s, w) ==
  IF s = <<>> \/ w = <<>> THEN s
  ELSE IF OccursAt(w, s, 1) THEN RemoveAll(SubSeq(s, Len(w) + 1, Len(s)), w)
  ELSE <<Head(s)>> \o RemoveAll(Tail(s), w)

\* str.split(ch): always at least one piece
RECURSIVE SplitOn(_, _)
SplitOn(s, ch) ==
  IF \A i \in 1..Len(s) : s[i] # ch THEN <<s>>
  ELSE LET i == CHOOSE j \in 1..Len(s) : s[j] = ch /\ \A k \in 1..(j - 1) : s[k] # ch
       IN  <<SubSeq(s, 1, i - 1)>> \o SplitOn(SubSeq(s, i + 1, Len(s)), ch)

\* sep.join(list)
RECURSIVE Join(_, _)
Join(list, sep) ==
  IF list = <<>> THEN <<>>
  ELSE IF Len(list) = 1 THEN list[1]
  ELSE list[1] \o sep \o Join(Tail(list), sep)

\* s < t for Python strings
RECURSIVE TextLess(_, _)
TextLess(s, t) ==
  IF t = <<>> THEN FALSE
  ELSE IF s = <<>> THEN TRUE
  ELSE IF Head(s) # Head(t) THEN Ord(Head(s)) < Ord(Head(t))
  ELSE TextLess(Tail(s), Tail(t))

\* sorted(set of texts)
RECURSIVE Sorted(_)
Sorted(S) ==
  IF S = {} THEN <<>>
  ELSE LET m == CHOOSE x \in S : \A y \in S \ {x} : TextLess(x, y)
       IN  <<m>> \o Sorted(S \ {m})

\* [f(x) for x in list]
StripEach(list) == [i \in 1..Len(list) |-> Strip(list[i])]

\* list(dict.fromkeys(list)): first occurrences, in order
RECURSIVE Dedupe(_)
Dedupe(list) ==
  IF list = <<>> THEN <<>>
  ELSE LET init == Dedupe(SubSeq(list, 1, Len(list) - 1))
           last == list[Len(list)]
       IN  IF last \in Range(init) THEN init ELSE Append(init, last)

\* a table cell: NaN / None, or a text
NaN == [isna |-> TRUE, text |-> <<>>]
Cell(s) == [isna |-> FALSE, text |-> s]

----------------------------------------------------------------------------
(* Python dict with insertion order: a sequence of [key, value] *)

DictKeys(d) == {d[i].key : i \in 1..Len(d)}

DictHas(d, k) == k \in DictKeys(d)

\* d[k], for k in d
DictGet(d, k) == d[CHOOSE i \in 1..Len(d) : d[i].key = k].value

\* d[k] = v: overwrite in place, or insert at the end
DictPut(d, k, v) ==
  IF DictHas(d, k)
  THEN [i \in 1..Len(d) |-> IF d[i].key = k THEN [key |-> k, value |-> v] ELSE d[i]]
  ELSE Append(d, [key |-> k, value |-> v])

----------------------------------------------------------------------------
(* country_matching.py: constants *)

COMMON_EMAIL_DOMAINS ==
  {
    <<"1","6","3",".","c","o","m">>, <<"a","o","l",".","c","o","m">>,
    <<"g","m","a","i","l",".","c","o","m">>, <<"h","o","t","m","a","i","l",".","c","o","m">>,
    <<"i","c","l","o","u","d",".","c","o","m">>, <<"l","i","v","e",".","c","o","m">>,
    <<"m","a","i","l",".","r","u">>, <<"m","s","n",".","c","o","m">>,
    <<"o","u","t","l","o","o","k",".","c","o","m">>, <<"p","r","o","t","o","n","m","a","i","l",".","c","o","m">>,
    <<"q","q",".","c","o","m">>, <<"s","i","n","a",".","c","o","m">>,
    <<"s","o","h","u",".","c","o","m">>, <<"y","a","h","o","o",".","c","o","m">>,
    <<"y","a","n","d","e","x",".","c","o","m">>
  }

TLD_TO_COUNTRY ==
  <<
    <<<<".","c","n">>, <<"C","N">>>>, <<<<".","i","n">>, <<"I","N">>>>, <<<<".","u","k">>, <<"G","B">>>>,
    <<<<".","c","a">>, <<"C","A">>>>, <<<<".","a","u">>, <<"A","U">>>>, <<<<".","d","e">>, <<"D","E">>>>,
    <<<<".","f","r">>, <<"F","R">>>>, <<<<".","j","p">>, <<"J","P">>>>, <<<<".","k","r">>, <<"K","R">>>>,
    <<<<".","s","g">>, <<"S","G">>>>, <<<<".","h","k">>, <<"H","K">>>>, <<<<".","t","w">>, <<"T","W">>>>,
    <<<<".","m","y">>, <<"M","Y">>>>, <<<<".","t","h">>, <<"T","H">>>>, <<<<".","p","h">>, <<"P","H">>>>,
    <<<<".","i","d">>, <<"I","D">>>>, <<<<".","v","n">>, <<"V","N">>>>, <<<<".","b","d">>, <<"B","D">>>>,
    <<<<".","p","k">>, <<"P","K">>>>, <<<<".","l","k">>, <<"L","K">>>>, <<<<".","n","p">>, <<"N","P">>>>,
    <<<<".","m","m">>, <<"M","M">>>>, <<<<".","k","h">>, <<"K","H">>>>, <<<<".","l","a">>, <<"L","A">>>>,
    <<<<".","b","n">>, <<"B","N">>>>, <<<<".","m","x">>, <<"M","X">>>>, <<<<".","b","r">>, <<"B","R">>>>,
    <<<<".","a","r">>, <<"A","R">>>>, <<<<".","c","l">>, <<"C","L">>>>, <<<<".","c","o">>, <<"C","O">>>>,
    <<<<".","p","e">>, <<"P","E">>>>, <<<<".","v","e">>, <<"V","E">>>>, <<<<".","e","c">>, <<"E","C">>>>,
    <<<<".","u","y">>, <<"U","Y">>>>, <<<<".","p","y">>, <<"P","Y">>>>, <<<<".","b","o">>, <<"B","O">>>>,
    <<<<".","z","a">>, <<"Z","A">>>>, <<<<".","n","g">>, <<"N","G">>>>, <<<<".","k","e">>, <<"K","E">>>>,
    <<<<".","e","g">>, <<"E","G">>>>, <<<<".","m","a">>, <<"M","A">>>>, <<<<".","t","n">>, <<"T","N">>>>,
    <<<<".","d","z">>, <<"D","Z">>>>, <<<<".","r","u">>, <<"R","U">>>>, <<<<".","u","a">>, <<"U","A">>>>,
    <<<<".","b","y">>, <<"B","Y">>>>, <<<<".","k","z">>, <<"K","Z">>>>, <<<<".","u","z">>, <<"U","Z">>>>,
    <<<<".","k","g">>, <<"K","G">>>>, <<<<".","t","j">>, <<"T","J">>>>, <<<<".","t","m">>, <<"T","M">>>>,
    <<<<".","a","f">>, <<"A","F">>>>, <<<<".","i","r">>, <<"I","R">>>>, <<<<".","i","q">>, <<"I","Q">>>>,
    <<<<".","s","y">>, <<"S","Y">>>>, <<<<".","l","b">>, <<"L","B">>>>, <<<<".","j","o">>, <<"J","O">>>>,
    <<<<".","i","l">>, <<"I","L">>>>, <<<<".","p","s">>, <<"P","S">>>>, <<<<".","s","a">>, <<"S","A">>>>,
    <<<<".","a","e">>, <<"A","E">>>>, <<<<".","q","a">>, <<"Q","A">>>>, <<<<".","k","w">>, <<"K","W">>>>,
    <<<<".","b","h">>, <<"B","H">>>>, <<<<".","o","m">>, <<"O","M">>>>, <<<<".","y","e">>, <<"Y","E">>>>,
    <<<<".","t","r">>, <<"T","R">>>>, <<<<".","c","y">>, <<"C","Y">>>>, <<<<".","g","r">>, <<"G","R">>>>,
    <<<<".","b","g">>, <<"B","G">>>>, <<<<".","r","o">>, <<"R","O">>>>, <<<<".","m","d">>, <<"M","D">>>>,
    <<<<".","h","u">>, <<"H","U">>>>, <<<<".","s","k">>, <<"S","K">>>>, <<<<".","c","z">>, <<"C","Z">>>>,
    <<<<".","p","l">>, <<"P","L">>>>, <<<<".","l","t">>, <<"L","T">>>>, <<<<".","l","v">>, <<"L","V">>>>,
    <<<<".","e","e">>, <<"E","E">>>>, <<<<".","f","i">>, <<"F","I">>>>, <<<<".","s","e">>, <<"S","E">>>>,
    <<<<".","n","o">>, <<"N","O">>>>, <<<<".","d","k">>, <<"D","K">>>>, <<<<".","i","s">>, <<"I","S">>>>,
    <<<<".","i","e">>, <<"I","E">>>>, <<<<".","p","t">>, <<"P","T">>>>, <<<<".","e","s">>, <<"E","S">>>>,
    <<<<".","i","t">>, <<"I","T">>>>, <<<<".","c","h">>, <<"C","H">>>>, <<<<".","a","t">>, <<"A","T">>>>,
    <<<<".","b","e">>, <<"B","E">>>>, <<<<".","n","l">>, <<"N","L">>>>, <<<<".","l","u">>, <<"L","U">>>>,
    <<<<".","n","z">>, <<"N","Z">>>>
  >>

words_to_remove ==
  <<
    <<"u","n","i","v","e","r","s","i","t","y">>,
    <<"c","o","l","l","e","g","e">>,
    <<"i","n","s","t","i","t","u","t","e">>,
    <<"s","c","h","o","o","l">>,
    <<"o","f">>,
    <<"t","h","e">>,
    <<"a","n","d">>,
    <<"t","e","c","h","n","o","l","o","g","y">>,
    <<"s","c","i","e","n","c","e">>,
    <<"e","n","g","i","n","e","e","r","i","n","g">>,
    <<"m","e","d","i","c","a","l">>,
    <<"s","t","a","t","e">>,
    <<"n","a","t","i","o","n","a","l">>,
    <<"i","n","t","e","r","n","a","t","i","o","n","a","l">>,
    <<"p","r","i","v","a","t","e">>,
    <<"p","u","b","l","i","c">>,
    <<"c","o","m","m","u","n","i","t","y">>
  >>

----------------------------------------------------------------------------
(* Reference files read by the loaders *)

\* world_universities_and_domains.json
UniversitiesFile ==
  << [name |-> <<"M","I","T">>, alpha_two_code |-> <<"U","S">>, country |-> <<"U","s","a">>,
      domains |-> <<<<"m","i","t",".","e","d","u">>>>],
     [name |-> <<"T","s","i","n","g","h","u","a"," ","U","n","i","v","e","r","s","i","t","y">>, alpha_two_code |-> <<"C","N">>, country |-> <<"C","h","i","n","a">>,
      domains |-> <<<<"t","s","i","n","g","h","u","a",".","e","d","u",".","c","n">>>>],
     [name |-> <<"T","U"," ","M","u","n","i","c","h">>, alpha_two_code |-> <<"D","E">>, country |-> <<"G","e","r","m","a","n","y">>,
      domains |-> <<<<"t","u","m",".","d","e">>>>],
     [name |-> <<"H","k","u">>, alpha_two_code |-> <<"H","K">>, country |-> <<"H","o","n","g"," ","K","o","n","g">>,
      domains |-> <<<<"h","k","u",".","c","n">>>>],
     [name |-> <<"U","n","a","m">>, alpha_two_code |-> <<"N","A">>, country |-> <<"N","a","m","i","b","i","a">>,
      domains |-> <<<<"u","n","a","m",".","n","a">>>>],
     [name |-> <<"N","o","w","h","e","r","e">>, alpha_two_code |-> <<>>, country |-> <<>>,
      domains |-> <<<<"n","o","w","h","e","r","e",".","o","r","g">>>>],
     [name |-> <<"M","i","t"," ","C","o","l","l","e","g","e">>, alpha_two_code |-> <<"I","N">>, country |-> <<"I","n","d","i","a">>,
      domains |-> <<<<"M","I","T",".","A","C",".","I","N">>>>],
     [name |-> <<"U","s","a"," ","S","t","a","t","e"," ","U","n","i","v","e","r","s","i","t","y">>, alpha_two_code |-> <<"U","S">>, country |-> <<"A","m","e","r","i","c","a">>,
      domains |-> <<>>] >>

\* country_region_toefl.csv
ToeflFile ==
  << [Country |-> <<" ","U","s","a"," ">>, requirement |-> <<"E","x","e","m","p","t">>],
     [Country |-> <<"C","h","i","n","a">>, requirement |-> <<"R","e","q","u","i","r","e","d">>],
     [Country |-> <<"G","e","r","m","a","n","y">>, requirement |-> <<" ","R","e","q","u","i","r","e","d"," ">>],
     [Country |-> <<"I","n","d","i","a">>, requirement |-> <<"e","x","e","m","p","t">>],
     [Country |-> <<>>, requirement |-> <<"E","x","e","m","p","t">>] >>

----------------------------------------------------------------------------
(* country_matching.py: functions *)

RECURSIVE RemoveWords(_, _)
RemoveWords(s, words) ==
  IF words = <<>> THEN s ELSE RemoveWords(RemoveAll(s, Head(words)), Tail(words))

\* re.sub(r'[^\w\s]', '', s)
RemovePunctuation(s) == SelectSeq(s, LAMBDA c : IsWordChar(c) \/ IsSpace(c))

\* re.sub(r'\s+', ' ', s)
RECURSIVE CollapseSpaces(_)
CollapseSpaces(s) ==
  IF s = <<>> THEN <<>>
  ELSE IF IsSpace(Head(s)) THEN <<" ">> \o CollapseSpaces(LStrip(s))
  ELSE <<Head(s)>> \o CollapseSpaces(Tail(s))

normalize_institution_name(name) ==
  Strip(CollapseSpaces(RemovePunctuation(RemoveWords(Lower(name), words_to_remove))))

\* variant: an institution name already in the table keeps its first code
LoadUniversity_FirstWins(data, uni) ==
  LET country_code == uni.alpha_two_code
      RECURSIVE PutDomains(_, _)
      PutDomains(d, doms) ==
        IF doms = <<>> THEN d
        ELSE PutDomains(DictPut(d, Lower(Head(doms)), country_code), Tail(doms))
      normalized_name == normalize_institution_name(uni.name)
  IN  [domain_to_country |-> PutDomains(data.domain_to_country, uni.domains),
       institution_to_country |->
         IF uni.name # <<>> /\ normalized_name # <<>>
            /\ ~DictHas(data.institution_to_country, normalized_name)
         THEN DictPut(data.institution_to_country, normalized_name, country_code)
         ELSE data.institution_to_country,
       code_to_country_name |->
         IF country_code # <<>> /\ uni.country # <<>>
            /\ ~DictHas(data.code_to_country_name, country_code)
         THEN DictPut(data.code_to_country_name, country_code, uni.country)
         ELSE data.code_to_country_name]

\* the loop body of load_universities_data for one record
LoadUniversity(data, uni) ==
  LET country_code == uni.alpha_two_code
      RECURSIVE PutDomains(_, _)
      PutDomains(d, doms) ==
        IF doms = <<>> THEN d
        ELSE PutDomains(DictPut(d, Lower(Head(doms)), country_code), Tail(doms))
      normalized_name == normalize_institution_name(uni.name)
  IN  [domain_to_country |-> PutDomains(data.domain_to_country, uni.domains),
       institution_to_country |->
         IF uni.name # <<>> /\ normalized_name # <<>>
         THEN DictPut(data.institution_to_country, normalized_name, country_code)
         ELSE data.institution_to_country,
       code_to_country_name |->
         IF country_code # <<>> /\ uni.country # <<>>
            /\ ~DictHas(data.code_to_country_name, country_code)
         THEN DictPut(data.code_to_country_name, country_code, uni.country)
         ELSE data.code_to_country_name]

RECURSIVE LoadUniversities(_, _)
LoadUniversities(data, universities) ==
  IF universities = <<>> THEN data
  ELSE LoadUniversities(LoadUniversity(data, Head(universities)), Tail(universities))

load_universities_data(universities) ==
  LoadUniversities([domain_to_country |-> <<>>, institution_to_country |-> <<>>,
                    code_to_country_name |-> <<>>], universities)

RECURSIVE load_toefl_requirements(_)
load_toefl_requirements(rows) ==
  IF rows = <<>> THEN <<>>
  ELSE LET requirements == load_toefl_requirements(SubSeq(rows, 1, Len(rows) - 1))
           row == rows[Len(rows)]
           country == Strip(row.Country)
           requirement == Strip(row.requirement)
       IN  IF country # <<>> THEN DictPut(requirements, Lower(country), requirement)
           ELSE requirements

university_data == load_universities_data(UniversitiesFile)

toefl_requirements == load_toefl_requirements(ToeflFile)

\* TLD_TO_COUNTRY.get(tld): a set, empty for None
TldLookup(tld) ==
  {TLD_TO_COUNTRY[i][2] : i \in {j \in 1..Len(TLD_TO_COUNTRY) : TLD_TO_COUNTRY[j][1] = tld}}

\* infer_country_from_tld(domain): a set, empty for None
infer_country_from_tld(domain) ==
  LET parts == SplitOn(domain, ".")
  IN  IF Len(parts) >= 2 THEN TldLookup(<<".">> \o parts[Len(parts)]) ELSE {}

\* variant: the provider set is compared without lower()
filter_email_domains_CaseSensitive(domains_str) ==
  IF domains_str = <<>> \/ Strip(domains_str) = <<>> THEN <<>>
  ELSE LET domains == StripEach(SplitOn(domains_str, ";"))
           kept == SelectSeq(domains,
                     LAMBDA d : d # <<>> /\ d \notin COMMON_EMAIL_DOMAINS)
       IN  [i \in 1..Len(kept) |-> Lower(kept[i])]

filter_email_domains(domains_str) ==
  IF domains_str = <<>> \/ Strip(domains_str) = <<>> THEN <<>>
  ELSE LET domains == StripEach(SplitOn(domains_str, ";"))
           kept == SelectSeq(domains,
                     LAMBDA d : d # <<>> /\ Lower(d) \notin COMMON_EMAIL_DOMAINS)
       IN  [i \in 1..Len(kept) |-> Lower(kept[i])]

\* the fuzzy scan of find_country_codes for one normalized name: first match wins
FuzzyCodes(data, normalized_name) ==
  LET table == data.institution_to_country
      hits == {i \in 1..Len(table) :
                 /\ Len(table[i].key) >= 3
                 /\ \/ Contains(normalized_name, table[i].key) /\ Len(normalized_name) >= 4
                    \/ Contains(table[i].key, normalized_name) /\ Len(table[i].key) >= 4}
  IN  IF Len(normalized_name) >= 3 /\ hits # {}
      THEN {table[CHOOSE i \in hits : \A j \in hits : i <= j].value}
      ELSE {}

\* codes one institution contributes
InstitutionCodes(data, institution) ==
  LET normalized_name == normalize_institution_name(institution)
  IN  IF normalized_name = <<>> THEN {}
      ELSE IF DictHas(data.institution_to_country, normalized_name)
      THEN {DictGet(data.institution_to_country, normalized_name)}
      ELSE FuzzyCodes(data, normalized_name)

\* variant: a domain the table does not know contributes nothing
DomainCodes_TableOnly(data, domain) ==
  IF DictHas(data.domain_to_country, domain)
  THEN {DictGet(data.domain_to_country, domain)}
  ELSE {}

\* variant: the TLD is consulted for a domain the table knows as well
DomainCodes_AlwaysTld(data, domain) ==
  (IF DictHas(data.domain_to_country, domain)
   THEN {DictGet(data.domain_to_country, domain)}
   ELSE {})
  \cup infer_country_from_tld(domain)

\* codes one email domain contributes
DomainCodes(data, domain) ==
  IF DictHas(data.domain_to_country, domain)
  THEN {DictGet(data.domain_to_country, domain)}
  ELSE infer_country_from_tld(domain)

find_country_codes(data, institutions, email_domains) ==
  UNION {InstitutionCodes(data, institutions[i]) : i \in 1..Len(institutions)}
  \cup UNION {DomainCodes(data, email_domains[i]) : i \in 1..Len(email_domains)}

----------------------------------------------------------------------------
(* add_english_labels.py: functions *)

\* re.findall of the email pattern is taken as given: an all_emails cell carries
\* the domains the pattern finds, in order
extract_email_domains(email_cell) ==
  IF email_cell.isna \/ email_cell.matches = <<>> THEN <<>>
  ELSE Join(Dedupe(email_cell.matches), <<";"," ">>)

\* a stored english_speaker value: NaN, a number (in tenths), infinity, or other text
LabelNaN == [kind |-> "nan", tenths |-> 0]
LabelNum(t) == [kind |-> "num", tenths |-> t]
LabelInf == [kind |-> "inf", tenths |-> 0]
LabelText == [kind |-> "text", tenths |-> 0]

\* int(x) truncates toward zero
IntOfTenths(t) == IF t >= 0 THEN t \div 10 ELSE -((-t) \div 10)

\* int(float('inf')) raises OverflowError, which clean_label does not catch
clean_label_raises(val) == val.kind = "inf"

\* clean_label(val): {} for None, {n} for n
clean_label(val) ==
  IF val.kind = "num" /\ IntOfTenths(val.tenths) \in {0, 1, -1}
  THEN {IntOfTenths(val.tenths)}
  ELSE {}

\* json.loads(education_background) is taken as given: the cell carries the kind of
\* the parsed value and, for an array of objects, each entry's `institution`
\* (NaN when the key is missing or null)
EduNaN == [kind |-> "nan", entries |-> <<>>]
EduBlank == [kind |-> "blank", entries |-> <<>>]
EduUnparseable == [kind |-> "unparseable", entries |-> <<>>]
EduNotIterable == [kind |-> "not_iterable", entries |-> <<>>]
EduNonObjects == [kind |-> "non_object_items", entries |-> <<>>]
EduArray(entries) == [kind |-> "array", entries |-> entries]

\* entry.get on a str, int, list or None raises AttributeError, which is not caught
extract_institutions_raises(education_background) ==
  education_background.kind = "non_object_items"

extract_institutions_from_education(education_background) ==
  IF education_background.kind = "array"
  THEN LET found == SelectSeq(education_background.entries,
                      LAMBDA e : ~e.isna /\ e.text # <<>>)
       IN  [i \in 1..Len(found) |-> found[i].text]
  ELSE <<>>

\* lines 83-98 for one row: the derived columns
DerivedColumns(row) ==
  LET all_emails_domains == extract_email_domains(row.all_emails)
  IN  [filtered_email_domains |->
         IF all_emails_domains # <<>>
         THEN Join(filter_email_domains(all_emails_domains), <<";"," ">>)
         ELSE <<>>,
       institutions_from_education |->
         IF row.education_background.kind \notin {"nan"}
         THEN Join(extract_institutions_from_education(row.education_background), <<";"," ">>)
         ELSE <<>>]

\* variant: the '{' prefix is not tested
HasCountryData_NoBrace(existing_countries) ==
  /\ ~existing_countries.isna
  /\ Strip(existing_countries.text) \notin {<<"n","a","n">>, <<"N","o","n","e">>, <<>>}

\* lines 126-131
HasCountryData(existing_countries) ==
  /\ ~existing_countries.isna
  /\ LET countries_str == Strip(existing_countries.text)
     IN  /\ countries_str # <<>>
         /\ countries_str \notin {<<"n","a","n">>, <<"N","o","n","e">>, <<>>}
         /\ ~StartsWith(countries_str, <<"{">>)

\* variant: the stored label is kept when the stored country field is a placeholder
PreservedResult_KeepsLabel(row, cleaned_label) ==
  LET has_country_data == HasCountryData(row.education_countries)
      existing_label == IF cleaned_label = {} THEN -1
                        ELSE CHOOSE n \in cleaned_label : TRUE
  IN  [education_countries |-> IF has_country_data THEN row.education_countries ELSE NaN,
       english_speaker |-> existing_label]

\* variant: a stored label 0 is taken as falsy and reset
PreservedResult_ZeroIsFalsy(row, cleaned_label) ==
  LET has_country_data == HasCountryData(row.education_countries)
  IN  [education_countries |-> IF has_country_data THEN row.education_countries ELSE NaN,
       english_speaker |-> IF has_country_data /\ cleaned_label = {1} THEN 1 ELSE -1]

\* lines 124-150: the preserved path
PreservedResult(row, cleaned_label) ==
  LET has_country_data == HasCountryData(row.education_countries)
      existing_label == IF cleaned_label = {} THEN -1
                        ELSE CHOOSE n \in cleaned_label : TRUE
  IN  [education_countries |-> IF has_country_data THEN row.education_countries ELSE NaN,
       english_speaker |-> IF has_country_data THEN existing_label ELSE -1]

\* row.get(column, '') split on ';' and stripped (lines 153-157)
SplitColumn(str) == IF str # <<>> THEN StripEach(SplitOn(str, ";")) ELSE <<>>

\* lines 162-167: TLD inference when find_country_codes found nothing
TldSafetyNet(country_codes, email_domains) ==
  IF country_codes = {} /\ email_domains # <<>>
  THEN UNION {infer_country_from_tld(email_domains[i]) : i \in 1..Len(email_domains)}
  ELSE country_codes

\* variant: "nan" and "none" are compared without lower()
CurrentCountry_CaseSensitive(current_country_raw) ==
  IF current_country_raw.isna THEN {}
  ELSE LET current_country_str == Strip(current_country_raw.text)
       IN  IF current_country_str \notin {<<"n","a","n">>, <<"n","o","n","e">>, <<>>}
           THEN {current_country_str}
           ELSE {}

\* lines 170-177: the valid self-reported country, {} for None
CurrentCountry(current_country_raw) ==
  IF current_country_raw.isna THEN {}
  ELSE LET current_country_str == Strip(current_country_raw.text)
       IN  IF current_country_str # <<>>
              /\ Lower(current_country_str) \notin {<<"n","a","n">>, <<"n","o","n","e">>, <<>>}
           THEN {current_country_str}
           ELSE {}

\* variant: the self-report is used only when nothing was resolved
MergeCurrentCountry_FallbackOnly(country_codes, current_country) ==
  IF country_codes = {} THEN current_country ELSE country_codes

\* lines 181-184
MergeCurrentCountry(country_codes, current_country) ==
  IF country_codes = {} /\ current_country # {} THEN current_country
  ELSE IF current_country # {} /\ ~(current_country \subseteq country_codes)
  THEN country_codes \cup current_country
  ELSE country_codes

\* variant: a member that is no code is looked up as a display name
IsExempt_ByText(code) ==
  LET country_name == IF DictHas(university_data.code_to_country_name, code)
                      THEN DictGet(university_data.code_to_country_name, code)
                      ELSE code
  IN  /\ country_name # <<>>
      /\ DictHas(toefl_requirements, Lower(country_name))
      /\ DictGet(toefl_requirements, Lower(country_name)) = <<"E","x","e","m","p","t">>

\* variant: the requirement is compared without regard to case
IsExempt_AnyCase(code) ==
  /\ DictHas(university_data.code_to_country_name, code)
  /\ LET country_name == DictGet(university_data.code_to_country_name, code)
     IN  /\ DictHas(toefl_requirements, Lower(country_name))
         /\ Lower(DictGet(toefl_requirements, Lower(country_name))) = <<"e","x","e","m","p","t">>

\* lines 203-207: the display name of the code has TOEFL requirement 'Exempt'
IsExempt(code) ==
  /\ DictHas(university_data.code_to_country_name, code)
  /\ LET country_name == DictGet(university_data.code_to_country_name, code)
     IN  /\ country_name # <<>>
         /\ DictHas(toefl_requirements, Lower(country_name))
         /\ DictGet(toefl_requirements, Lower(country_name)) = <<"E","x","e","m","p","t">>

\* lines 198-207
EnglishFlag(country_codes) ==
  IF country_codes = {} THEN -1
  ELSE IF \E code \in country_codes : IsExempt(code) THEN 1
  ELSE 0

\* lines 152-209: the locals of one iteration for an author without preserved label
Resolve(row, columns) ==
  LET institutions == SplitColumn(columns.institutions_from_education)
      email_domains == SplitColumn(columns.filtered_email_domains)
      found == find_country_codes(university_data, institutions, email_domains)
      resolved == TldSafetyNet(found, email_domains)
      current_country == CurrentCountry(row.current_country)
      country_codes == MergeCurrentCountry(resolved, current_country)
      no_data == resolved = {} /\ current_country = {}
  IN  [path |-> IF no_data THEN "no_data" ELSE "resolved",
       institutions |-> institutions,
       email_domains |-> email_domains,
       found |-> found,
       resolved |-> resolved,
       current_country |-> current_country,
       country_codes |-> country_codes,
       education_countries |->
         IF no_data \/ country_codes = {} THEN NaN
         ELSE Cell(Join(Sorted(country_codes), <<";"," ">>)),
       english_speaker |-> IF no_data THEN -1 ELSE EnglishFlag(country_codes)]

\* variant: only a null country field counts
NoCountry_OnlyNull(education_countries) == education_countries.isna

\* line 217
NoCountry(education_countries) ==
  education_countries.isna \/ Strip(education_countries.text) = <<>>

\* variant: one inconsistent row resets every row
FinalValidation_ResetAll(countries, labels) ==
  LET invalid_labels == {i \in 1..Len(countries) :
                           NoCountry(countries[i]) /\ labels[i] # -1}
  IN  [i \in 1..Len(countries) |->
         IF invalid_labels # {}
         THEN [education_countries |-> NaN, english_speaker |-> -1]
         ELSE [education_countries |-> countries[i], english_speaker |-> labels[i]]]

\* variant: no final validation
FinalValidation_NoSweep(countries, labels) ==
  [i \in 1..Len(countries) |->
     [education_countries |-> countries[i], english_speaker |-> labels[i]]]

\* lines 215-222: the final validation over both columns
FinalValidation(countries, labels) ==
  LET no_country_mask == {i \in 1..Len(countries) : NoCountry(countries[i])}
      invalid_labels == {i \in no_country_mask : labels[i] # -1}
  IN  [i \in 1..Len(countries) |->
         IF invalid_labels # {} /\ i \in no_country_mask
         THEN [education_countries |-> NaN, english_speaker |-> -1]
         ELSE [education_countries |-> countries[i], english_speaker |-> labels[i]]]

\* values pandas.read_csv reads as NaN (default na_values), among the model's texts
CsvNaValues == {<<>>, <<"N","A">>, <<"N","U","L","L">>, <<"N","a","N">>, <<"N","o","n","e">>, <<"n","a","n">>, <<"n","u","l","l">>}

\* df.to_csv of one run read back by pd.read_csv of the next
CsvCell(cell) == IF cell.isna \/ cell.text \in CsvNaValues THEN NaN ELSE cell

----------------------------------------------------------------------------
(* The author table read from AUTHOR_PROFILES_FILE *)

Emails(matches) == [isna |-> FALSE, matches |-> matches]
NoEmails == [isna |-> TRUE, matches |-> <<>>]

Row(name, label, countries, education, emails, current) ==
  [author_name |-> name, english_speaker |-> label, education_countries |-> countries,
   education_background |-> education, all_emails |-> emails, current_country |-> current]

StoredLabels ==
  {LabelNaN, LabelNum(10), LabelNum(0), LabelNum(-10), LabelNum(5), LabelNum(20),
   LabelText, LabelInf}

StoredCountries ==
  {NaN, Cell(<<" "," ">>), Cell(<<" ","n","a","n">>), Cell(<<"N","o","n","e"," ">>), Cell(<<"{","X">>), Cell(<<"U","S">>),
   Cell(<<"C","N",";"," ","U","S">>), Cell(<<"n","o","n","e">>)}

Educations ==
  {EduNaN, EduBlank, EduUnparseable, EduNotIterable, EduNonObjects,
   EduArray(<<Cell(<<"M","I","T">>)>>),
   EduArray(<<Cell(<<"T","s","i","n","g","h","u","a"," ","S","h","e","n","z","h","e","n">>), NaN, Cell(<<>>)>>),
   EduArray(<<Cell(<<"O","x","f","o","r","d",";"," ","H","k","u">>)>>)}

EmailCells ==
  {NoEmails, Emails(<<<<"g","m","a","i","l",".","c","o","m">>>>), Emails(<<<<"M","a","i","l",".","R","U">>>>),
   Emails(<<<<"s","t","u","d","e","n","t",".","t","s","i","n","g","h","u","a",".","e","d","u",".","c","n">>>>), Emails(<<<<"m","i","t",".","e","d","u">>>>),
   Emails(<<<<"t","u","m",".","d","e">>, <<"g","m","a","i","l",".","c","o","m">>, <<"t","u","m",".","d","e">>>>), Emails(<<<<"n","o","w","h","e","r","e",".","o","r","g">>>>),
   Emails(<<<<"f","o","o",".","c","o","m">>>>), Emails(<<<<"u","n","a","m",".","n","a">>>>), Emails(<<<<"h","k","u",".","c","n">>>>)}

CurrentCountries ==
  {NaN, Cell(<<" ","N","a","N"," ">>), Cell(<<"n","o","n","e"," ">>), Cell(<<"F","r","a","n","c","e">>), Cell(<<" ","U","S">>), Cell(<<"{","X">>),
   Cell(<<" ","D","E"," ">>), Cell(<<" ","N","A">>), Cell(<<"U","s","a">>)}

\* the subject row: every stored label and country field with two signal settings,
\* and every combination of signals for an author without stored label
SubjectRows ==
  {Row("a", l, c, EduNaN, e, NaN) :
     l \in StoredLabels, c \in StoredCountries, e \in {NoEmails, Emails(<<<<"t","u","m",".","d","e">>>>)}}
  \cup
  {Row("a", LabelNaN, NaN, b, e, cc) :
     b \in Educations, e \in EmailCells, cc \in CurrentCountries}
  \cup
  {Row("a", LabelNum(10), Cell(<<"U","S">>), b, e, NaN) :
     b \in {EduNonObjects, EduArray(<<Cell(<<"T","s","i","n","g","h","u","a"," ","U","n","i","v","e","r","s","i","t","y">>)>>)},
     e \in {NoEmails, Emails(<<<<"t","u","m",".","d","e">>>>)}}

\* rows that may follow it: another author with and without stored label, an author
\* whose stored label is infinite, and a second row of the subject's name
CompanionRows ==
  {Row("b", LabelNum(0), Cell(<<"C","N">>), EduNaN, NoEmails, NaN),
   Row("b", LabelNaN, NaN, EduArray(<<Cell(<<"H","k","u">>)>>), Emails(<<<<"q","q",".","c","o","m">>>>), Cell(<<"F","r","a","n","c","e">>)),
   Row("b", LabelInf, NaN, EduNaN, NoEmails, NaN),
   Row("a", LabelNum(10), Cell(<<"U","S">>), EduNaN, NoEmails, NaN)}

RECURSIVE SeqsUpTo(_, _)
SeqsUpTo(S, n) ==
  IF n = 0 THEN {<<>>}
  ELSE LET shorter == SeqsUpTo(S, n - 1)
       IN  shorter \cup {Append(s, x) : s \in {t \in shorter : Len(t) = n - 1}, x \in S}

\* the rows as given and in the opposite order
Orders(table) ==
  {table, [i \in 1..Len(table) |-> table[Len(table) + 1 - i]]}

Tables(subject) ==
  UNION {Orders(<<subject>> \o cs) : cs \in SeqsUpTo(CompanionRows, MaxCompanions)}

----------------------------------------------------------------------------
(* process_author_profiles as a state machine *)

VARIABLES
  df,                        \* the table as read: one row per author
  columns,                   \* derived columns, per row (lines 83-98)
  cleaned,                   \* english_speaker after clean_label, per row
  authors_with_labels,       \* names of the authors with a valid label
  idx,                       \* the row the loop is at (1-based)
  education_countries_list,
  english_speaker_list,
  locals,                    \* the loop's locals, per processed row
  out,                       \* the two result columns after the final validation
  pc,                        \* start, extracted, loop, validate, done, aborted
  run,                       \* first or second pass
  first                      \* input and result of the first pass

\* find_country_codes taken one step at a time
VARIABLES
  uni_data,                  \* the university_data argument
  institution_list,          \* the institutions argument
  domain_list,               \* the email_domains argument
  codes,                     \* the country_codes set being built
  inst,                      \* the institution the first loop is at (1-based)
  scan,                      \* the key the fuzzy scan is at (1-based), 0 outside it
  dom,                       \* the domain the second loop is at (1-based)
  visits,                    \* per institution: how its code was found
  fpc                        \* idle, institutions, scan, domains, returned

findVars == <<uni_data, institution_list, domain_list, codes, inst, scan, dom,
              visits, fpc>>

\* extract_unique_authors, then merge_papers_with_language, over the year files
VARIABLES
  files,                     \* per year of YEARS: the paper file, or its absence
  profiles,                  \* author_profiles_with_language.csv, or its absence
  year,                      \* the year either loop is at (1-based position in YEARS)
  all_authors,               \* extract_unique_authors: its list of author entries
  unique_authors_df,         \* extract_unique_authors: the table it returns
  author_language_map,       \* merge_papers_with_language: its lookup dictionary
  all_merged_data,           \* merge_papers_with_language: the merged table per year
  ppc                        \* idle, extract, extracted, merge, merged, no_profiles

paperVars == <<files, profiles, year, all_authors, unique_authors_df,
               author_language_map, all_merged_data, ppc>>

\* the loading of the two reference files (process_author_profiles lines 74-81)
VARIABLES
  universities_file,         \* world_universities_and_domains.json as found
  toefl_file,                \* country_region_toefl.csv as found
  uni_at,                    \* the item load_universities_data is at (1-based)
  loaded,                    \* the dictionaries load_universities_data is building
  toefl_built,               \* what load_toefl_requirements returned
  lpc                        \* idle, universities, toefl, processing, failed

loadVars == <<universities_file, toefl_file, uni_at, loaded, toefl_built, lpc>>

mainVars == <<df, columns, cleaned, authors_with_labels, idx, education_countries_list,
              english_speaker_list, locals, out, pc, run, first>>

\* run_pipeline.main
VARIABLES
  stage_at,                  \* where main is: a stage, a prompt, report, returned
  stages_run,                \* the stages started so far, in order
  outcomes,                  \* what each started stage gave: ok, none, empty, raised
  answers,                   \* the texts typed at the prompts so far
  completion                 \* "Pipeline Complete!" was printed

pipeVars == <<stage_at, stages_run, outcomes, answers, completion>>

\* collect_paper_data.safe_get_json
VARIABLES
  max_attempts,              \* the argument
  attempt,                   \* the loop variable of line 64
  responses,                 \* what requests.get gave, one entry per request made
  rpc                        \* idle, loop, returned, none, raised

retryVars == <<max_attempts, attempt, responses, rpc>>

\* fetch_profiles.fetch_author_profiles
VARIABLES
  author_names,              \* the author_name column of unique_authors_df
  batch_size,                \* the argument
  client_ok,                 \* _initialize_client returned a client
  batch_num,                 \* the loop variable of line 164
  row_at,                    \* the position of the inner loop in the table (1-based)
  searches,                  \* per author processed: what the profile search did
  enhanced_data,             \* the list of profile records
  gpc                        \* idle, client, batches, rows, statistics, returned,
                             \* no_client, raised

fetchVars == <<author_names, batch_size, client_ok, batch_num, row_at, searches,
               enhanced_data, gpc>>

sideVars == <<findVars, paperVars, loadVars, pipeVars, retryVars, fetchVars>>

vars == <<mainVars, sideVars>>

NoData == [domain_to_country |-> <<>>, institution_to_country |-> <<>>,
           code_to_country_name |-> <<>>]

FindIdle ==
  /\ uni_data = NoData /\ institution_list = <<>> /\ domain_list = <<>>
  /\ codes = {} /\ inst = 1 /\ scan = 0 /\ dom = 1
  /\ visits = <<>> /\ fpc = "idle"

PaperIdle ==
  /\ files = <<>> /\ profiles = <<>> /\ year = 1 /\ all_authors = <<>>
  /\ unique_authors_df = <<>> /\ author_language_map = <<>>
  /\ all_merged_data = <<>> /\ ppc = "idle"

LoadIdle ==
  /\ universities_file = <<>> /\ toefl_file = <<>> /\ uni_at = 1
  /\ loaded = NoData /\ toefl_built = <<>> /\ lpc = "idle"

PipeIdle ==
  /\ stage_at = "idle" /\ stages_run = <<>> /\ outcomes = <<>>
  /\ answers = <<>> /\ completion = FALSE

RetryIdle == max_attempts = 0 /\ attempt = 0 /\ responses = <<>> /\ rpc = "idle"

FetchIdle ==
  /\ author_names = <<>> /\ batch_size = 1 /\ client_ok = FALSE /\ batch_num = 0
  /\ row_at = 1 /\ searches = <<>> /\ enhanced_data = <<>> /\ gpc = "idle"

RunIdle == PipeIdle /\ RetryIdle /\ FetchIdle

SideIdle == FindIdle /\ PaperIdle /\ LoadIdle /\ RunIdle

exceptFind == <<mainVars, paperVars, loadVars, pipeVars, retryVars, fetchVars>>

exceptPaper == <<mainVars, findVars, loadVars, pipeVars, retryVars, fetchVars>>

exceptLoad == <<mainVars, findVars, paperVars, pipeVars, retryVars, fetchVars>>

exceptPipe == <<mainVars, findVars, paperVars, loadVars, retryVars, fetchVars>>

exceptRetry == <<mainVars, findVars, paperVars, loadVars, pipeVars, fetchVars>>

exceptFetch == <<mainVars, findVars, paperVars, loadVars, pipeVars, retryVars>>

NoFirst == [df |-> <<>>, out |-> <<>>]

Fresh(table) ==
  /\ df = table
  /\ columns = <<>>
  /\ cleaned = <<>>
  /\ authors_with_labels = {}
  /\ idx = 1
  /\ education_countries_list = <<>>
  /\ english_speaker_list = <<>>
  /\ locals = <<>>
  /\ out = <<>>
  /\ pc = "start"

Init ==
  /\ \E subject \in SubjectRows : \E table \in Tables(subject) : Fresh(table)
  /\ run = "first" /\ first = NoFirst
  /\ SideIdle

MainIdle == Fresh(<<>>) /\ run = "first" /\ first = NoFirst

\* lines 83-98
ExtractSignals ==
  /\ pc = "start"
  /\ \A i \in 1..Len(df) : ~extract_institutions_raises(df[i].education_background)
  /\ columns' = [i \in 1..Len(df) |-> DerivedColumns(df[i])]
  /\ pc' = "extracted"
  /\ UNCHANGED <<df, cleaned, authors_with_labels, idx, education_countries_list,
                 english_speaker_list, locals, out, run, first, sideVars>>

\* line 96 raises AttributeError
ExtractSignalsRaises ==
  /\ pc = "start"
  /\ \E i \in 1..Len(df) : extract_institutions_raises(df[i].education_background)
  /\ pc' = "aborted"
  /\ UNCHANGED <<df, columns, cleaned, authors_with_labels, idx, education_countries_list,
                 english_speaker_list, locals, out, run, first, sideVars>>

\* lines 104-113
CleanLabels ==
  /\ pc = "extracted"
  /\ \A i \in 1..Len(df) : ~clean_label_raises(df[i].english_speaker)
  /\ cleaned' = [i \in 1..Len(df) |-> clean_label(df[i].english_speaker)]
  /\ authors_with_labels' =
       {df[i].author_name : i \in {j \in 1..Len(df) : cleaned'[j] \cap {0, 1} # {}}}
  /\ pc' = "loop"
  /\ UNCHANGED <<df, columns, idx, education_countries_list, english_speaker_list,
                 locals, out, run, first, sideVars>>

\* line 106 raises OverflowError
CleanLabelsRaises ==
  /\ pc = "extracted"
  /\ \E i \in 1..Len(df) : clean_label_raises(df[i].english_speaker)
  /\ pc' = "aborted"
  /\ UNCHANGED <<df, columns, cleaned, authors_with_labels, idx, education_countries_list,
                 english_speaker_list, locals, out, run, first, sideVars>>

\* lines 124-150: one iteration for an author with a preserved label
PreserveRow ==
  /\ pc = "loop" /\ idx <= Len(df)
  /\ df[idx].author_name \in authors_with_labels
  /\ LET r == PreservedResult(df[idx], cleaned[idx])
     IN  /\ education_countries_list' = Append(education_countries_list, r.education_countries)
         /\ english_speaker_list' = Append(english_speaker_list, r.english_speaker)
         /\ locals' = Append(locals, [path |-> "preserved"])
  /\ idx' = idx + 1
  /\ UNCHANGED <<df, columns, cleaned, authors_with_labels, out, pc, run, first, sideVars>>

\* variant: the no-data path leaves the loop without appending
ResolveRow_NoDataSkips ==
  /\ pc = "loop" /\ idx <= Len(df)
  /\ df[idx].author_name \notin authors_with_labels
  /\ LET r == Resolve(df[idx], columns[idx])
     IN  /\ education_countries_list' =
               IF r.path = "no_data" THEN education_countries_list
               ELSE Append(education_countries_list, r.education_countries)
         /\ english_speaker_list' =
               IF r.path = "no_data" THEN english_speaker_list
               ELSE Append(english_speaker_list, r.english_speaker)
         /\ locals' = Append(locals, r)
  /\ idx' = idx + 1
  /\ UNCHANGED <<df, columns, cleaned, authors_with_labels, out, pc, run, first, sideVars>>

\* lines 152-209: one iteration for any other author
ResolveRow ==
  /\ pc = "loop" /\ idx <= Len(df)
  /\ df[idx].author_name \notin authors_with_labels
  /\ LET r == Resolve(df[idx], columns[idx])
     IN  /\ education_countries_list' = Append(education_countries_list, r.education_countries)
         /\ english_speaker_list' = Append(english_speaker_list, r.english_speaker)
         /\ locals' = Append(locals, r)
  /\ idx' = idx + 1
  /\ UNCHANGED <<df, columns, cleaned, authors_with_labels, out, pc, run, first, sideVars>>

\* lines 211-222
Validate ==
  /\ pc = "loop" /\ idx > Len(df)
  /\ out' = FinalValidation(education_countries_list, english_speaker_list)
  /\ pc' = "done"
  /\ UNCHANGED <<df, columns, cleaned, authors_with_labels, idx, education_countries_list,
                 english_speaker_list, locals, run, first, sideVars>>

\* the saved table (line 244) is the input of a second pass (line 65)
OutputRow(row, result) ==
  [row EXCEPT !.english_speaker = LabelNum(10 * result.english_speaker),
              !.education_countries = CsvCell(result.education_countries)]

Rerun ==
  /\ pc = "done" /\ run = "first"
  /\ df' = [i \in 1..Len(df) |-> OutputRow(df[i], out[i])]
  /\ columns' = <<>>
  /\ cleaned' = <<>>
  /\ authors_with_labels' = {}
  /\ idx' = 1
  /\ education_countries_list' = <<>>
  /\ english_speaker_list' = <<>>
  /\ locals' = <<>>
  /\ out' = <<>>
  /\ pc' = "start"
  /\ run' = "second"
  /\ first' = [df |-> df, out |-> out]
  /\ UNCHANGED sideVars

Next ==
  \/ ExtractSignals
  \/ ExtractSignalsRaises
  \/ CleanLabels
  \/ CleanLabelsRaises
  \/ PreserveRow
  \/ ResolveRow
  \/ Validate
  \/ Rerun

Spec == Init /\ [][Next]_vars

----------------------------------------------------------------------------
(* Vocabulary of the properties *)

Rows == 1..Len(df)

UniqueNames == \A i, j \in Rows : i # j => df[i].author_name # df[j].author_name

\* the stored label is exactly 0 or 1
StoredLabelValid(i) == df[i].english_speaker \in {LabelNum(0), LabelNum(10)}

StoredLabelValue(i) == df[i].english_speaker.tenths \div 10

\* a country field that is missing, empty, "nan", "None" or starts with '{'
Placeholder(cell) ==
  \/ cell.isna
  \/ Strip(cell.text) \in {<<>>, <<"n","a","n">>, <<"N","o","n","e">>}
  \/ Head(Strip(cell.text)) = "{"

EmptyOrAbsent(cell) == cell.isna \/ cell.text = <<>>

\* iterations of the loop that went through resolution (not the preserved path)
NewlyProcessed == {i \in 1..Len(locals) : locals[i].path # "preserved"}

\* the self-reported country of row i is valid
SelfReported(i) ==
  /\ ~df[i].current_country.isna
  /\ Lower(Strip(df[i].current_country.text)) \notin {<<>>, <<"n","a","n">>, <<"n","o","n","e">>}

----------------------------------------------------------------------------
(* C1 *)

\* C1 (Invariant I1): with unique author names, in the table a pass returns every
\* record has english_speaker = -1 exactly when its education_countries is empty or
\* absent, whatever labels and country fields the input carried.
C1_LabelUnknownIffNoCountry ==
  (pc = "done" /\ UniqueNames) =>
    \A i \in Rows :
      (out[i].english_speaker = -1) <=> EmptyOrAbsent(out[i].education_countries)

\* a pass over stored labels that ends with a healed record beside a labelled one
C1_Witness ==
  /\ pc = "done" /\ UniqueNames
  /\ \E i, j \in Rows :
       /\ StoredLabelValid(i) /\ out[i].english_speaker = -1
       /\ out[j].english_speaker \in {0, 1} /\ ~EmptyOrAbsent(out[j].education_countries)

----------------------------------------------------------------------------
(* C2 *)

NoStoredData(table) ==
  \A i \in 1..Len(table) :
    table[i].english_speaker = LabelNaN /\ table[i].education_countries.isna

\* C2 (idempotence): a second pass over the output of a first pass leaves every
\* record whose label was 0 or 1 as it was, and when the first pass started without
\* stored labels the second pass returns what the first returned.
C2_Idempotent ==
  (pc = "done" /\ run = "second" /\ UniqueNames) =>
    \A i \in Rows :
      /\ first.out[i].english_speaker \in {0, 1} => out[i] = first.out[i]
      /\ NoStoredData(first.df) => out[i] = first.out[i]

----------------------------------------------------------------------------
(* C3 *)

\* C3 as claimed (Invariant I2): a stored label 0 or 1 with a non-empty stored country
\* field comes out of a pass unchanged, label and country field.
C3_NonEmptyPreserved ==
  pc = "done" =>
    \A i \in Rows :
      (/\ StoredLabelValid(i)
       /\ ~df[i].education_countries.isna
       /\ Strip(df[i].education_countries.text) # <<>>)
      => /\ out[i].english_speaker = StoredLabelValue(i)
         /\ out[i].education_countries = df[i].education_countries

\* C3 amended: a stored label 0 or 1 whose stored country field is not a placeholder
\* (missing, blank, "nan", "None", or starting with '{') comes out of a pass unchanged,
\* label and country field, whatever the signals of the author resolve to.
C3_Preserved ==
  pc = "done" =>
    \A i \in Rows :
      (StoredLabelValid(i) /\ ~Placeholder(df[i].education_countries))
      => /\ out[i].english_speaker = StoredLabelValue(i)
         /\ out[i].education_countries = df[i].education_countries

\* a preserved author whose email domain resolves to another country
C3_Witness ==
  /\ pc = "done"
  /\ \E i \in Rows :
       /\ df[i].english_speaker = LabelNum(10)
       /\ df[i].education_countries = Cell(<<"U","S">>)
       /\ df[i].all_emails = Emails(<<<<"t","u","m",".","d","e">>>>)
       /\ out[i] = [education_countries |-> Cell(<<"U","S">>), english_speaker |-> 1]

----------------------------------------------------------------------------
(* C4 *)

\* C4 (self-healing): a stored label 0 or 1 whose stored country field is a placeholder
\* comes out of one pass as label -1 with an absent country field, and the author is not
\* resolved from signals in that pass.
C4_SelfHealing ==
  pc = "done" =>
    \A i \in Rows :
      (StoredLabelValid(i) /\ Placeholder(df[i].education_countries))
      => /\ out[i] = [education_countries |-> NaN, english_speaker |-> -1]
         /\ locals[i].path = "preserved"

\* a healed author whose email domain would have resolved to a country
C4_Witness ==
  /\ pc = "done"
  /\ \E i \in Rows :
       /\ df[i].english_speaker = LabelNum(10)
       /\ df[i].education_countries = Cell(<<"{","X">>)
       /\ df[i].all_emails = Emails(<<<<"t","u","m",".","d","e">>>>)
       /\ out[i] = [education_countries |-> NaN, english_speaker |-> -1]

----------------------------------------------------------------------------
(* C5 *)

\* the code maps to a display name whose TOEFL entry is exactly "Exempt"
C5_Exempt(code) ==
  \E i \in 1..Len(university_data.code_to_country_name) :
    /\ university_data.code_to_country_name[i].key = code
    /\ \E j \in 1..Len(toefl_requirements) :
         /\ toefl_requirements[j].key = Lower(university_data.code_to_country_name[i].value)
         /\ toefl_requirements[j].value = <<"E","x","e","m","p","t">>

C5_Rule(country_codes) == IF \E code \in country_codes : C5_Exempt(code) THEN 1 ELSE 0

----------------------------------------------------------------------------
(* C6 *)

----------------------------------------------------------------------------
(* C7 *)

\* C7 (additive self-report): for a newly processed author with a valid self-reported
\* country c and resolved set S the final set is S with c added, and the stored field
\* is that set sorted and joined.
C7_AdditiveSelfReport ==
  \A i \in NewlyProcessed :
    SelfReported(i) =>
      LET c == Strip(df[i].current_country.text)
      IN  /\ locals[i].country_codes = locals[i].resolved \cup {c}
          /\ education_countries_list[i] =
               Cell(Join(Sorted(locals[i].resolved \cup {c}), <<";"," ">>))

\* S = {DE} and c = "France" end as {DE, France}
C7_Witness ==
  \E i \in NewlyProcessed :
    /\ locals[i].resolved = {<<"D","E">>}
    /\ df[i].current_country = Cell(<<"F","r","a","n","c","e">>)
    /\ locals[i].country_codes = {<<"D","E">>, <<"F","r","a","n","c","e">>}
    /\ education_countries_list[i] = Cell(<<"D","E",";"," ","F","r","a","n","c","e">>)

----------------------------------------------------------------------------
(* C8 *)

AllGeneric(emails) ==
  \A k \in 1..Len(emails.matches) : Lower(emails.matches[k]) \in COMMON_EMAIL_DOMAINS

\* C8 (generic providers): no domain handed to resolution is a generic provider, and
\* an author whose only signals are generic addresses resolves to no country.
C8_GenericExcluded ==
  \A i \in NewlyProcessed :
    /\ \A k \in 1..Len(locals[i].email_domains) :
         Lower(locals[i].email_domains[k]) \notin COMMON_EMAIL_DOMAINS
    /\ (AllGeneric(df[i].all_emails) /\ locals[i].institutions = <<>>)
         => locals[i].resolved = {}

\* an address at Mail.RU, whose suffix .ru is in the TLD table, contributes nothing
C8_Witness ==
  \E i \in NewlyProcessed :
    /\ df[i].all_emails = Emails(<<<<"M","a","i","l",".","R","U">>>>)
    /\ locals[i].email_domains = <<>>
    /\ locals[i].resolved = {}

----------------------------------------------------------------------------
(* C9 *)

\* the final dot-suffix of a domain with at least one dot
C9_Suffix(d) ==
  LET p == CHOOSE q \in 1..Len(d) : d[q] = "." /\ \A r \in (q + 1)..Len(d) : d[r] # "."
  IN  SubSeq(d, p, Len(d))

\* what one domain is to contribute
C9_Expected(d) ==
  LET table == university_data.domain_to_country
      exact == {i \in 1..Len(table) : table[i].key = d}
  IN  IF exact # {} THEN {table[i].value : i \in exact}
      ELSE IF "." \in Range(d)
      THEN {TLD_TO_COUNTRY[j][2] :
              j \in {k \in 1..Len(TLD_TO_COUNTRY) : TLD_TO_COUNTRY[k][1] = C9_Suffix(d)}}
      ELSE {}

\* C9 (domain matching): with no institution in play, find_country_codes returns for
\* each domain the code of its exact entry in the domain table and, only when there is
\* none, the code of its final dot-suffix if the TLD table has it.
C9_DomainMatching ==
  \A i \in NewlyProcessed :
    locals[i].institutions = <<>> =>
      locals[i].found =
        UNION {C9_Expected(locals[i].email_domains[k]) :
                 k \in 1..Len(locals[i].email_domains)}

\* student.tsinghua.edu.cn has no exact entry and resolves to CN
C9_Witness ==
  \E i \in NewlyProcessed :
    /\ locals[i].institutions = <<>>
    /\ locals[i].email_domains = <<<<"s","t","u","d","e","n","t",".","t","s","i","n","g","h","u","a",".","e","d","u",".","c","n">>>>
    /\ locals[i].found = {<<"C","N">>}

----------------------------------------------------------------------------
(* C10 *)

\* C10 (per-row failures): no value of a row aborts the batch.
C10_NeverAborts == pc # "aborted"

----------------------------------------------------------------------------
(* C12 *)

\* C12 (extract_institutions_from_education never raises): whatever the education
\* backgrounds of the table, the extraction step returns a list for every row, so a
\* pass is never ended by it.
C12_ExtractionNeverRaises == pc = "aborted" => Len(columns) = Len(df)

----------------------------------------------------------------------------
(* C13 *)

\* C13 (label cleaning): an author is in the preserved set only if some row of that
\* name stores a label whose numeric value is exactly 0 or 1.
C13_OnlyExactLabelsPreserved ==
  Len(cleaned) = Len(df) =>
    \A i \in Rows :
      df[i].author_name \in authors_with_labels =>
        \E j \in Rows : df[j].author_name = df[i].author_name /\ StoredLabelValid(j)

----------------------------------------------------------------------------
(* C19 *)

Blank(cell) == cell.isna \/ Strip(cell.text) = <<>>

\* C19 (post-pass repair): after the final validation no record has a blank or null
\* country field with a label other than -1; a record the loop left that way ends
\* with label -1 and a null country field, and a record with a non-blank country
\* field is returned as the loop left it.
C19_PostPassRepair ==
  pc = "done" =>
    \A i \in Rows :
      /\ Blank(out[i].education_countries) => out[i].english_speaker = -1
      /\ (Blank(education_countries_list[i]) /\ english_speaker_list[i] # -1)
           => out[i] = [education_countries |-> NaN, english_speaker |-> -1]
      /\ ~Blank(education_countries_list[i])
           => out[i] = [education_countries |-> education_countries_list[i],
                        english_speaker |-> english_speaker_list[i]]

\* the loop left an empty country field with label 0, and the sweep repaired it
C19_Witness ==
  /\ pc = "done"
  /\ \E i \in Rows :
       /\ education_countries_list[i] = Cell(<<>>)
       /\ english_speaker_list[i] = 0
       /\ out[i] = [education_countries |-> NaN, english_speaker |-> -1]

----------------------------------------------------------------------------
(* C20 *)

\* what the stored label and the stored country field alone determine
C20_FromStored(label, countries) ==
  IF Placeholder(countries) THEN [education_countries |-> NaN, english_speaker |-> -1]
  ELSE [education_countries |-> countries,
        english_speaker |->
          IF label.kind = "num" /\ label.tenths \in -19..19
          THEN (IF label.tenths >= 10 THEN 1 ELSE IF label.tenths <= -10 THEN -1 ELSE 0)
          ELSE -1]

\* C20 (no resolution for preserved authors): the record of an author who stores a
\* valid label does not depend on that author's education background, so no
\* education background of such an author ends the pass.
C20_EducationIrrelevant ==
  \A i \in Rows :
    clean_label(df[i].english_speaker) \cap {0, 1} # {} =>
      ~(pc = "aborted" /\ extract_institutions_raises(df[i].education_background))

\* in a completed pass the record returned for an author of the preserved set is
\* the one its stored label and stored country field determine, and the loop does
\* not go through resolution for it
PreservedFromStoredOnly ==
  pc = "done" =>
    \A i \in Rows :
      df[i].author_name \in authors_with_labels =>
        /\ locals[i].path = "preserved"
        /\ out[i] = C20_FromStored(df[i].english_speaker, df[i].education_countries)


----------------------------------------------------------------------------
(* C14 *)

\* what a pass over the table holding this record alone returns for it
C14_Alone(row) ==
  LET cleaned_label == clean_label(row.english_speaker)
      kept == IF cleaned_label \subseteq {0, 1} /\ cleaned_label # {}
              THEN PreservedResult(row, cleaned_label)
              ELSE Resolve(row, DerivedColumns(row))
  IN  FinalValidation(<<kept.education_countries>>, <<kept.english_speaker>>)[1]

----------------------------------------------------------------------------
(* find_country_codes as a state machine *)

MaxInstitutions == 2

\* a directory in which a key is contained in a later key and contains another
PrecedenceFile ==
  << [name |-> <<"T","s","i","n","g","h","u","a"," ","S","h","e","n","z","h","e","n">>, alpha_two_code |-> <<"H","K">>, country |-> <<"H","o","n","g"," ","K","o","n","g">>,
      domains |-> <<>>],
     [name |-> <<"T","s","i","n","g","h","u","a"," ","U","n","i","v","e","r","s","i","t","y">>, alpha_two_code |-> <<"C","N">>, country |-> <<"C","h","i","n","a">>,
      domains |-> <<>>],
     [name |-> <<"T","U">>, alpha_two_code |-> <<"C","H">>, country |-> <<"S","w","i","t","z","e","r","l","a","n","d">>,
      domains |-> <<>>],
     [name |-> <<"H","k","u">>, alpha_two_code |-> <<"H","K">>, country |-> <<"H","o","n","g"," ","K","o","n","g">>,
      domains |-> <<>>],
     [name |-> <<"M","u","n","i","c","h">>, alpha_two_code |-> <<"D","E">>, country |-> <<"G","e","r","m","a","n","y">>,
      domains |-> <<<<"t","u","m",".","d","e">>>>],
     [name |-> <<"T","u"," ","M","u","n","i","c","h">>, alpha_two_code |-> <<"A","T">>, country |-> <<"A","u","s","t","r","i","a">>,
      domains |-> <<>>] >>

FindDirectories == {university_data, load_universities_data(PrecedenceFile)}

FindNames ==
  {<<"T","s","i","n","g","h","u","a"," ","U","n","i","v","e","r","s","i","t","y">>, <<"T","u"," ","M","u","n","i","c","h">>, <<"T","s","i","n","g","h","u","a"," ","B","e","i","j","i","n","g">>, <<"M","u","n","i","c","h"," ","T","e","c","h">>,
   <<"T","s","i","n","g">>, <<"H","k","u"," ","L","a","b">>, <<"M","u","n">>, <<"T","U">>, <<"U","n","i","v","e","r","s","i","t","y"," ","o","f"," ","t","h","e">>}

FindDomainLists == {<<>>, <<<<"t","u","m",".","d","e">>, <<"f","o","o",".","c","n">>>>, <<<<"f","o","o",".","c","o","m">>>>}

FindInit ==
  /\ MainIdle /\ PaperIdle /\ LoadIdle /\ RunIdle
  /\ \E d \in FindDirectories, names \in SeqsUpTo(FindNames, MaxInstitutions),
        ds \in FindDomainLists :
       /\ uni_data = d /\ institution_list = names /\ domain_list = ds
  /\ codes = {} /\ inst = 1 /\ scan = 0 /\ dom = 1
  /\ visits = <<>> /\ fpc = "institutions"

\* line 175
normalized_name == normalize_institution_name(institution_list[inst])

\* .items() of the institution table, in insertion order
items == uni_data.institution_to_country

\* variant: containment alone is a match
FuzzyMatch_AnyLength(name, uni_name) ==
  \/ Contains(name, uni_name)
  \/ Contains(uni_name, name)

\* variant: a contained string of three characters is enough
FuzzyMatch_Threshold3(name, uni_name) ==
  \/ Contains(name, uni_name) /\ Len(name) >= 3
  \/ Contains(uni_name, name) /\ Len(uni_name) >= 3

\* lines 190-191
FuzzyMatch(name, uni_name) ==
  \/ Contains(name, uni_name) /\ Len(name) >= 4
  \/ Contains(uni_name, name) /\ Len(uni_name) >= 4

\* variant: the table is never asked for the name itself
ExactKeys_None(table, name) == {}

\* line 180: the position of the key equal to the name
ExactKeys(table, name) == {j \in 1..Len(table) : table[j].key = name}

\* the visit recorded when the loop leaves an institution: its normalized name
\* (line 175), how it was settled, the codes it added, the keys scanned
Visit(name, how, added, scanned) ==
  [name |-> name, how |-> how, added |-> added, scanned |-> scanned]

NextInstitution(how, added, scanned) ==
  /\ visits' = Append(visits, Visit(normalized_name, how, added, scanned))
  /\ codes' = codes \cup added
  /\ inst' = inst + 1
  /\ scan' = 0
  /\ fpc' = "institutions"
  /\ UNCHANGED <<uni_data, institution_list, domain_list, dom>>
  /\ UNCHANGED exceptFind

\* lines 177-178
SkipEmptyName ==
  /\ fpc = "institutions" /\ inst <= Len(institution_list)
  /\ normalized_name = <<>>
  /\ NextInstitution("empty", {}, 0)

\* lines 180-183
ExactMatch ==
  /\ fpc = "institutions" /\ inst <= Len(institution_list)
  /\ normalized_name # <<>>
  /\ ExactKeys(items, normalized_name) # {}
  /\ NextInstitution("exact",
                     {items[j].value : j \in ExactKeys(items, normalized_name)}, 0)

\* line 185, false
TooShortToScan ==
  /\ fpc = "institutions" /\ inst <= Len(institution_list)
  /\ normalized_name # <<>>
  /\ ExactKeys(items, normalized_name) = {}
  /\ Len(normalized_name) < 3
  /\ NextInstitution("short", {}, 0)

\* lines 185-186
StartScan ==
  /\ fpc = "institutions" /\ inst <= Len(institution_list)
  /\ normalized_name # <<>>
  /\ ExactKeys(items, normalized_name) = {}
  /\ Len(normalized_name) >= 3
  /\ fpc' = "scan"
  /\ scan' = 1
  /\ UNCHANGED <<uni_data, institution_list, domain_list, codes, inst, dom, visits>>
  /\ UNCHANGED exceptFind

\* lines 187-188
ScanSkipKey ==
  /\ fpc = "scan" /\ scan <= Len(items)
  /\ Len(items[scan].key) < 3
  /\ scan' = scan + 1
  /\ UNCHANGED <<uni_data, institution_list, domain_list, codes, inst, dom, visits, fpc>>
  /\ UNCHANGED exceptFind

\* lines 190-193
ScanMatch ==
  /\ fpc = "scan" /\ scan <= Len(items)
  /\ Len(items[scan].key) >= 3
  /\ FuzzyMatch(normalized_name, items[scan].key)
  /\ NextInstitution("fuzzy", {items[scan].value}, scan)

\* line 190, false
ScanMiss ==
  /\ fpc = "scan" /\ scan <= Len(items)
  /\ Len(items[scan].key) >= 3
  /\ ~FuzzyMatch(normalized_name, items[scan].key)
  /\ scan' = scan + 1
  /\ UNCHANGED <<uni_data, institution_list, domain_list, codes, inst, dom, visits, fpc>>
  /\ UNCHANGED exceptFind

\* line 186, exhausted
ScanEnd ==
  /\ fpc = "scan" /\ scan > Len(items)
  /\ NextInstitution("none", {}, Len(items))

\* line 196
EndInstitutions ==
  /\ fpc = "institutions" /\ inst > Len(institution_list)
  /\ fpc' = "domains"
  /\ UNCHANGED <<uni_data, institution_list, domain_list, codes, inst, scan, dom, visits>>
  /\ UNCHANGED exceptFind

\* lines 196-203
MatchDomain ==
  /\ fpc = "domains" /\ dom <= Len(domain_list)
  /\ codes' = codes \cup DomainCodes(uni_data, domain_list[dom])
  /\ dom' = dom + 1
  /\ UNCHANGED <<uni_data, institution_list, domain_list, inst, scan, visits, fpc>>
  /\ UNCHANGED exceptFind

\* line 205
ReturnCodes ==
  /\ fpc = "domains" /\ dom > Len(domain_list)
  /\ fpc' = "returned"
  /\ UNCHANGED <<uni_data, institution_list, domain_list, codes, inst, scan, dom, visits>>
  /\ UNCHANGED exceptFind

FindNext ==
  \/ SkipEmptyName
  \/ ExactMatch
  \/ TooShortToScan
  \/ StartScan
  \/ ScanSkipKey
  \/ ScanMatch
  \/ ScanMiss
  \/ ScanEnd
  \/ EndInstitutions
  \/ MatchDomain
  \/ ReturnCodes

SpecFind == FindInit /\ [][FindNext]_vars

\* the steps return what the function, taken as a whole, returns
StepsAgree ==
  fpc = "returned" => codes = find_country_codes(uni_data, institution_list, domain_list)

----------------------------------------------------------------------------
(* C17 *)

\* the positions of the keys equal to a normalized name
KeysEqual(name) == {j \in 1..Len(items) : items[j].key = name}

\* C17 (exact match precedence): an institution whose normalized name is a key of
\* the institution table adds exactly that key's code and is never scanned, and an
\* institution whose normalized name is empty adds nothing.
C17_ExactPrecedence ==
  /\ \A k \in 1..Len(visits) :
       LET name == visits[k].name
       IN  /\ name = <<>> => visits[k] = Visit(name, "empty", {}, 0)
           /\ (name # <<>> /\ KeysEqual(name) # {}) =>
                visits[k] = Visit(name, "exact",
                                  {items[j].value : j \in KeysEqual(name)}, 0)
  /\ fpc = "scan" => KeysEqual(normalized_name) = {}

\* an exact hit although an earlier key contains the name, then an empty name
C17_Witness ==
  /\ fpc = "returned" /\ Len(visits) = 2
  /\ visits[1].how = "exact"
  /\ \E j \in 1..Len(items) :
       /\ \A e \in KeysEqual(visits[1].name) : j < e
       /\ Len(items[j].key) > Len(visits[1].name)
       /\ Contains(visits[1].name, items[j].key)
  /\ visits[2].how = "empty"

----------------------------------------------------------------------------
(* C18 *)

\* one of the two strings contains the other, the contained one of length 4 or more
C18_Qualifies(name, key) ==
  /\ Len(key) >= 3
  /\ \/ Contains(name, key) /\ Len(name) >= 4
     \/ Contains(key, name) /\ Len(key) >= 4

C18_Qualifying(k) ==
  {j \in 1..Len(items) : C18_Qualifies(visits[k].name, items[j].key)}

\* C18 (fuzzy fallback): an institution with a non-empty normalized name and no
\* exact hit adds the code of the first qualifying key in insertion order, the scan
\* stopping at that key, and adds nothing when no key qualifies.
C18_FuzzyFallback ==
  \A k \in 1..Len(visits) :
    (visits[k].name # <<>> /\ KeysEqual(visits[k].name) = {}) =>
      IF C18_Qualifying(k) = {}
      THEN visits[k].added = {}
      ELSE LET hit == CHOOSE j \in C18_Qualifying(k) : \A h \in C18_Qualifying(k) : j <= h
           IN  visits[k].added = {items[hit].value} /\ visits[k].scanned = hit

\* a fuzzy hit on the first of two qualifying keys, then a name no key qualifies for
C18_Witness ==
  /\ fpc = "returned" /\ Len(visits) = 2
  /\ visits[1].how = "fuzzy"
  /\ \E j \in C18_Qualifying(1) : j > visits[1].scanned /\ items[j].value # items[visits[1].scanned].value
  /\ visits[2].how = "none"
  /\ Len(visits[2].name) >= 4

----------------------------------------------------------------------------
(* extract_unique_authors.py and merge_papers_with_language.py *)

MaxPapers == 2

\* config.YEARS, cut to two years
YEARS == <<"2018", "2019">>

\* extract_first_author (both modules define it alike): always a text
extract_first_author(authors_str) ==
  IF authors_str.isna \/ authors_str.text = <<>> THEN <<>>
  ELSE LET stripped == Strip(authors_str.text)
       IN  IF stripped = <<>> THEN <<>> ELSE Strip(SplitOn(stripped, ",")[1])

\* a paper: its authors cell and its stored first_author cell
Paper(authors, first_author) == [authors |-> authors, first_author |-> first_author]

PaperRows ==
  {Paper(Cell(<<"a",","," ","b">>), Cell(<<"a">>)),
   Paper(Cell(<<" ","b"," ",",","a">>), Cell(<<" ","b"," ">>)),
   Paper(Cell(<<"c">>), Cell(<<"c">>)),
   Paper(Cell(<<","," ","a">>), Cell(<<>>)),
   Paper(Cell(<<>>), Cell(<<>>)),
   Paper(NaN, NaN)}

NoFile == [exists |-> FALSE, columns |-> {}, rows |-> <<>>]
File(columns_, rows) == [exists |-> TRUE, columns |-> columns_, rows |-> rows]

ColumnSets == {{"authors", "first_author"}, {"authors"}, {"first_author"}, {}}

FirstYearFiles ==
  {NoFile} \cup {File(c, rows) : c \in ColumnSets, rows \in SeqsUpTo(PaperRows, MaxPapers)}

SecondYearFiles ==
  {NoFile,
   File({"authors", "first_author"},
        <<Paper(Cell(<<"a",","," ","c">>), Cell(<<"a">>)), Paper(Cell(<<"c">>), Cell(<<"c">>))>>),
   File({"first_author"}, <<Paper(NaN, NaN), Paper(Cell(<<"a">>), Cell(<<"a">>))>>)}

Profile(author_name, english_speaker) ==
  [author_name |-> author_name, english_speaker |-> english_speaker]

ProfileTables ==
  {NoFile,
   File({"author_name", "english_speaker"}, <<>>),
   File({"author_name", "english_speaker"},
        <<Profile(Cell(<<"a">>), 1), Profile(Cell(<<"b">>), 0)>>),
   File({"author_name", "english_speaker"},
        <<Profile(Cell(<<" ","b"," ">>), 0), Profile(Cell(<<"c">>), -1)>>),
   File({"author_name", "english_speaker"},
        <<Profile(Cell(<<"a">>), 0), Profile(NaN, 1), Profile(Cell(<<"a">>), 1)>>)}

PaperInit ==
  /\ MainIdle /\ FindIdle /\ LoadIdle /\ RunIdle
  /\ \E f1 \in FirstYearFiles, f2 \in SecondYearFiles : files = <<f1, f2>>
  /\ profiles \in ProfileTables
  /\ year = 1 /\ all_authors = <<>> /\ unique_authors_df = <<>>
  /\ author_language_map = <<>> /\ all_merged_data = <<>>
  /\ ppc = "extract"

\* `x != ''` on a column: true for NaN
NotEmptyText(x) == x.isna \/ x.text # <<>>

\* Python truth of a cell value: NaN is a non-zero float
Truthy(x) == x.isna \/ x.text # <<>>

\* extract_unique_authors line 64
KeptAuthors(first_author) == Dedupe(SelectSeq(first_author, NotEmptyText))

\* lines 67-71
Collect(first_author) ==
  LET first_authors == KeptAuthors(first_author)
  IN  /\ all_authors' = all_authors \o
                          [i \in 1..Len(first_authors) |->
                             [author_name |-> first_authors[i], year |-> YEARS[year]]]
      /\ year' = year + 1
      /\ UNCHANGED <<files, profiles, unique_authors_df, author_language_map,
                     all_merged_data, ppc>>
      /\ UNCHANGED exceptPaper

SkipYear ==
  /\ year' = year + 1
  /\ UNCHANGED <<files, profiles, all_authors, unique_authors_df, author_language_map,
                 all_merged_data, ppc>>
  /\ UNCHANGED exceptPaper

\* lines 40-42
ExtractMissingFile ==
  /\ ppc = "extract" /\ year <= Len(YEARS)
  /\ ~files[year].exists
  /\ SkipYear

\* lines 55-56
ExtractFromAuthors ==
  /\ ppc = "extract" /\ year <= Len(YEARS)
  /\ files[year].exists
  /\ "authors" \in files[year].columns
  /\ Collect([i \in 1..Len(files[year].rows) |->
                Cell(extract_first_author(files[year].rows[i].authors))])

\* lines 57-58
ExtractStored ==
  /\ ppc = "extract" /\ year <= Len(YEARS)
  /\ files[year].exists
  /\ "authors" \notin files[year].columns
  /\ "first_author" \in files[year].columns
  /\ Collect([i \in 1..Len(files[year].rows) |-> files[year].rows[i].first_author])

\* lines 59-61
ExtractNoColumn ==
  /\ ppc = "extract" /\ year <= Len(YEARS)
  /\ files[year].exists
  /\ "authors" \notin files[year].columns
  /\ "first_author" \notin files[year].columns
  /\ SkipYear

\* lines 74-76
ExtractNothing ==
  /\ ppc = "extract" /\ year > Len(YEARS)
  /\ all_authors = <<>>
  /\ unique_authors_df' = <<>>
  /\ ppc' = "extracted"
  /\ UNCHANGED <<files, profiles, year, all_authors, author_language_map,
                 all_merged_data>>
  /\ UNCHANGED exceptPaper

\* lines 78-97: drop_duplicates keeps the first entry of each name
ExtractSave ==
  /\ ppc = "extract" /\ year > Len(YEARS)
  /\ all_authors # <<>>
  /\ unique_authors_df' =
       Dedupe([i \in 1..Len(all_authors) |-> all_authors[i].author_name])
  /\ ppc' = "extracted"
  /\ UNCHANGED <<files, profiles, year, all_authors, author_language_map,
                 all_merged_data>>
  /\ UNCHANGED exceptPaper

\* merge_papers_with_language lines 41-44
MergeNoProfiles ==
  /\ ppc = "extracted"
  /\ ~profiles.exists
  /\ ppc' = "no_profiles"
  /\ UNCHANGED <<files, profiles, year, all_authors, unique_authors_df,
                 author_language_map, all_merged_data>>
  /\ UNCHANGED exceptPaper

\* lines 50-56: a later row of a name overwrites the earlier one
RECURSIVE BuildLanguageMap(_)
BuildLanguageMap(rows) ==
  IF rows = <<>> THEN <<>>
  ELSE LET before == BuildLanguageMap(SubSeq(rows, 1, Len(rows) - 1))
           row == rows[Len(rows)]
       IN  IF Truthy(row.author_name)
           THEN DictPut(before, row.author_name, row.english_speaker)
           ELSE before

\* lines 47-56
MergeLoadProfiles ==
  /\ ppc = "extracted"
  /\ profiles.exists
  /\ author_language_map' = BuildLanguageMap(profiles.rows)
  /\ year' = 1
  /\ ppc' = "merge"
  /\ UNCHANGED <<files, profiles, all_authors, unique_authors_df, all_merged_data>>
  /\ UNCHANGED exceptPaper

\* lines 88-90: author_language_map.get(x, -1) if x else -1.  A NaN key is found by
\* dict.get only when the key and x are one object, which is up to pandas
LanguageOf(x, nan_is_same) ==
  IF ~Truthy(x) THEN -1
  ELSE IF x.isna /\ ~nan_is_same THEN -1
  ELSE IF DictHas(author_language_map, x) THEN DictGet(author_language_map, x)
  ELSE -1

\* lines 87-113
MergeYear(first_author) ==
  /\ \E nan_is_same \in BOOLEAN :
       all_merged_data' =
         Append(all_merged_data,
                [year |-> year,
                 rows |-> [i \in 1..Len(first_author) |->
                             [paper |-> files[year].rows[i],
                              first_author |-> first_author[i],
                              english_speaker |->
                                LanguageOf(first_author[i], nan_is_same)]]])
  /\ year' = year + 1
  /\ UNCHANGED <<files, profiles, all_authors, unique_authors_df, author_language_map,
                 ppc>>
  /\ UNCHANGED exceptPaper

\* lines 64-66
MergeMissingFile ==
  /\ ppc = "merge" /\ year <= Len(YEARS)
  /\ ~files[year].exists
  /\ SkipYear

\* line 79, false: the stored column is used
MergeStored ==
  /\ ppc = "merge" /\ year <= Len(YEARS)
  /\ files[year].exists
  /\ "first_author" \in files[year].columns
  /\ MergeYear([i \in 1..Len(files[year].rows) |-> files[year].rows[i].first_author])

\* lines 79-81
MergeFromAuthors ==
  /\ ppc = "merge" /\ year <= Len(YEARS)
  /\ files[year].exists
  /\ "first_author" \notin files[year].columns
  /\ "authors" \in files[year].columns
  /\ MergeYear([i \in 1..Len(files[year].rows) |->
                  Cell(extract_first_author(files[year].rows[i].authors))])

\* lines 82-84
MergeNoColumn ==
  /\ ppc = "merge" /\ year <= Len(YEARS)
  /\ files[year].exists
  /\ "first_author" \notin files[year].columns
  /\ "authors" \notin files[year].columns
  /\ SkipYear

\* lines 115-127
MergeReturn ==
  /\ ppc = "merge" /\ year > Len(YEARS)
  /\ ppc' = "merged"
  /\ UNCHANGED <<files, profiles, year, all_authors, unique_authors_df,
                 author_language_map, all_merged_data>>
  /\ UNCHANGED exceptPaper

PaperNext ==
  \/ ExtractMissingFile
  \/ ExtractFromAuthors
  \/ ExtractStored
  \/ ExtractNoColumn
  \/ ExtractNothing
  \/ ExtractSave
  \/ MergeNoProfiles
  \/ MergeLoadProfiles
  \/ MergeMissingFile
  \/ MergeStored
  \/ MergeFromAuthors
  \/ MergeNoColumn
  \/ MergeReturn

SpecPapers == PaperInit /\ [][PaperNext]_vars

----------------------------------------------------------------------------
(* C15 *)

EmptyName(x) == x.isna \/ x.text = <<>>

\* the label stored for the profile of this name: of the last row, should there be
\* several
C15_Stored(x) ==
  LET hits == {i \in 1..Len(profiles.rows) : profiles.rows[i].author_name = x}
  IN  IF hits = {} THEN -1
      ELSE profiles.rows[CHOOSE i \in hits : \A j \in hits : j <= i].english_speaker

\* C15 (merge default): every paper row of a merged year carries the label stored for
\* the profile named as its first author, and -1 when the first author is empty or
\* has no profile; the merged table has the papers of the file, in the file's order.
C15_MergeDefault ==
  \A m \in 1..Len(all_merged_data) :
    LET merged == all_merged_data[m]
    IN  /\ Len(merged.rows) = Len(files[merged.year].rows)
        /\ \A i \in 1..Len(merged.rows) :
             /\ merged.rows[i].paper = files[merged.year].rows[i]
             /\ merged.rows[i].english_speaker =
                  IF EmptyName(merged.rows[i].first_author) THEN -1
                  ELSE C15_Stored(merged.rows[i].first_author)

\* the same, for the first authors that are not missing values
MergeDefaultForNames ==
  \A m \in 1..Len(all_merged_data) :
    LET merged == all_merged_data[m]
    IN  /\ Len(merged.rows) = Len(files[merged.year].rows)
        /\ \A i \in 1..Len(merged.rows) :
             /\ merged.rows[i].paper = files[merged.year].rows[i]
             /\ ~merged.rows[i].first_author.isna =>
                  merged.rows[i].english_speaker =
                    IF EmptyName(merged.rows[i].first_author) THEN -1
                    ELSE C15_Stored(merged.rows[i].first_author)

----------------------------------------------------------------------------
(* C16 *)

\* the first author of a paper as extract_unique_authors takes it from a year file
FirstAuthorTaken(file, i) ==
  IF "authors" \in file.columns THEN Cell(extract_first_author(file.rows[i].authors))
  ELSE file.rows[i].first_author

Processed(file) == file.exists /\ file.columns \cap {"authors", "first_author"} # {}

\* C16 (unique author key): the table returned by extract_unique_authors holds every
\* non-empty first-author name of the processed years, holds no name twice, and
\* holds no empty name.
C16_UniqueAuthorKey ==
  ppc = "extracted" =>
    /\ \A y \in 1..Len(files) :
         Processed(files[y]) =>
           \A i \in 1..Len(files[y].rows) :
             ~EmptyName(FirstAuthorTaken(files[y], i)) =>
               \E k \in 1..Len(unique_authors_df) :
                 unique_authors_df[k] = FirstAuthorTaken(files[y], i)
    /\ \A k, l \in 1..Len(unique_authors_df) :
         unique_authors_df[k] = unique_authors_df[l] => k = l
    /\ \A k \in 1..Len(unique_authors_df) : ~EmptyName(unique_authors_df[k])

\* the same without the last part: every name once
EveryNameOnce ==
  ppc = "extracted" =>
    /\ \A y \in 1..Len(files) :
         Processed(files[y]) =>
           \A i \in 1..Len(files[y].rows) :
             ~EmptyName(FirstAuthorTaken(files[y], i)) =>
               \E k \in 1..Len(unique_authors_df) :
                 unique_authors_df[k] = FirstAuthorTaken(files[y], i)
    /\ \A k, l \in 1..Len(unique_authors_df) :
         unique_authors_df[k] = unique_authors_df[l] => k = l

----------------------------------------------------------------------------
(* the loading of the reference files: process_author_profiles lines 74-81 *)

MaxRecords == 2

\* an item of the JSON array: an object (with the record .get() sees, '' standing
\* for a missing key), a text, or an object whose domains is null
Item(shape, keys, rec) == [shape |-> shape, keys |-> keys, rec |-> rec]

RecordKeys == {"name", "alpha_two_code", "country", "domains"}

Items ==
  {Item("object", RecordKeys, UniversitiesFile[1]),
   Item("object", RecordKeys, UniversitiesFile[2]),
   Item("object", RecordKeys \ {"alpha_two_code"},
        [UniversitiesFile[3] EXCEPT !.alpha_two_code = <<>>]),
   Item("object", RecordKeys, [UniversitiesFile[7] EXCEPT !.domains = <<<<"M","I","T",".","E","D","U">>>>]),
   Item("object", RecordKeys, [UniversitiesFile[8] EXCEPT !.country = <<>>]),
   Item("object", RecordKeys, UniversitiesFile[8]),
   Item("text", {}, UniversitiesFile[1]),
   Item("null_domains", RecordKeys, UniversitiesFile[1])}

\* the directory of the model followed by a record that repeats a name and two domains
DuplicatesFile ==
  UniversitiesFile \o
  << [name |-> <<"T","h","e"," ","H","k","u">>, alpha_two_code |-> <<"C","N">>, country |-> <<"C","h","i","n","a">>,
      domains |-> <<<<"H","K","U",".","c","n">>, <<"M","i","t",".","E","d","u">>, <<"n","e","w",".","c","n">>>>] >>

\* the file: missing, not JSON, a JSON number or null, a JSON object, a JSON array
Json(kind, items_) == [kind |-> kind, items |-> items_]

UniversitiesFiles ==
  {Json("missing", <<>>), Json("unparseable", <<>>), Json("not_iterable", <<>>),
   Json("object", <<>>), Json("object", <<Item("text", {}, UniversitiesFile[1])>>)}
  \cup {Json("array", list) : list \in SeqsUpTo(Items, MaxRecords)}
  \cup {Json("array", [i \in 1..Len(DuplicatesFile) |->
                         Item("object", RecordKeys, DuplicatesFile[i])])}

\* the CSV file: missing, not UTF-8, or a header and rows
Csv(kind, header, rows) == [kind |-> kind, header |-> header, rows |-> rows]

ToeflFiles ==
  {Csv("missing", {}, <<>>),
   Csv("undecodable", {}, <<>>),
   Csv("csv", {}, <<>>),
   Csv("csv", {"Country", "TOEFL requirement"}, ToeflFile),
   Csv("csv", {"country", "requirement"}, ToeflFile),
   Csv("csv", {"Country"}, ToeflFile)}

LoadInit ==
  /\ MainIdle /\ FindIdle /\ PaperIdle /\ RunIdle
  /\ universities_file \in UniversitiesFiles
  /\ toefl_file \in ToeflFiles
  /\ uni_at = 1 /\ loaded = NoData /\ toefl_built = <<>>
  /\ lpc = "universities"

Fail ==
  /\ lpc' = "failed"
  /\ UNCHANGED <<universities_file, toefl_file, uni_at, loaded, toefl_built>>
  /\ UNCHANGED exceptLoad

\* country_matching.py lines 47-48: FileNotFoundError, JSONDecodeError
OpenUniversitiesRaises ==
  /\ lpc = "universities"
  /\ universities_file.kind \in {"missing", "unparseable"}
  /\ Fail

\* line 54: TypeError, the value is not iterable
IterateRaises ==
  /\ lpc = "universities"
  /\ universities_file.kind = "not_iterable"
  /\ Fail

\* lines 54-70, one item
LoadItem ==
  /\ lpc = "universities"
  /\ universities_file.kind \in {"object", "array"}
  /\ uni_at <= Len(universities_file.items)
  /\ universities_file.items[uni_at].shape = "object"
  /\ loaded' = LoadUniversity(loaded, universities_file.items[uni_at].rec)
  /\ uni_at' = uni_at + 1
  /\ UNCHANGED <<universities_file, toefl_file, toefl_built, lpc>>
  /\ UNCHANGED exceptLoad

\* line 55: AttributeError on a text; line 60: TypeError on null domains
LoadItemRaises ==
  /\ lpc = "universities"
  /\ universities_file.kind \in {"object", "array"}
  /\ uni_at <= Len(universities_file.items)
  /\ universities_file.items[uni_at].shape # "object"
  /\ Fail

\* lines 72-80
UniversitiesLoaded ==
  /\ lpc = "universities"
  /\ universities_file.kind \in {"object", "array"}
  /\ uni_at > Len(universities_file.items)
  /\ lpc' = "toefl"
  /\ UNCHANGED <<universities_file, toefl_file, uni_at, loaded, toefl_built>>
  /\ UNCHANGED exceptLoad

\* lines 86-87: FileNotFoundError, UnicodeDecodeError
OpenToeflRaises ==
  /\ lpc = "toefl"
  /\ toefl_file.kind \in {"missing", "undecodable"}
  /\ Fail

\* the rows as csv.DictReader hands them over: row.get() of a column the header
\* does not name is None, taken as ''
RowsRead(file) ==
  [i \in 1..(IF file.header = {} THEN 0 ELSE Len(file.rows)) |->
     [Country |-> IF "Country" \in file.header THEN file.rows[i].Country ELSE <<>>,
      requirement |-> IF "TOEFL requirement" \in file.header
                      THEN file.rows[i].requirement ELSE <<>>]]

\* lines 85-93; then add_english_labels.py line 83 onwards
LoadToefl ==
  /\ lpc = "toefl"
  /\ toefl_file.kind = "csv"
  /\ toefl_built' = load_toefl_requirements(RowsRead(toefl_file))
  /\ lpc' = "processing"
  /\ UNCHANGED <<universities_file, toefl_file, uni_at, loaded>>
  /\ UNCHANGED exceptLoad

LoadNext ==
  \/ OpenUniversitiesRaises
  \/ IterateRaises
  \/ LoadItem
  \/ LoadItemRaises
  \/ UniversitiesLoaded
  \/ OpenToeflRaises
  \/ LoadToefl

SpecLoad == LoadInit /\ [][LoadNext]_vars

----------------------------------------------------------------------------
(* C11 *)

\* the directory is an array of objects holding the four keys
WellFormedDirectory(file) ==
  /\ file.kind = "array"
  /\ \A i \in 1..Len(file.items) :
       file.items[i].shape = "object" /\ file.items[i].keys = RecordKeys

\* the table has the two columns load_toefl_requirements reads
WellFormedTable(file) ==
  file.kind = "csv" /\ {"Country", "TOEFL requirement"} \subseteq file.header

\* C11 (fatal reference-data failure): the processing of author records begins only
\* when both reference files were there and well formed; a missing or malformed
\* file ends the run before.
C11_FatalReferenceFailure ==
  lpc = "processing" =>
    WellFormedDirectory(universities_file) /\ WellFormedTable(toefl_file)

\* a missing or unreadable reference file does end the run before any processing
MissingFileIsFatal ==
  (\/ universities_file.kind \in {"missing", "unparseable", "not_iterable"}
   \/ toefl_file.kind \in {"missing", "undecodable"})
    => lpc # "processing"

----------------------------------------------------------------------------
(* C21, C22, C24, C28, C30: the per-record loop and the final sweep *)

\* iterations that went through resolution and found some country evidence
Resolved == {i \in 1..Len(locals) : locals[i].path = "resolved"}

\* C21 (TLD safety net): for every newly processed author the country set after
\* step 3 equals the set find_country_codes returned; in particular when
\* find_country_codes returned the empty set, TLD inference over the author's
\* email domains adds no code.
C21_SafetyNetRedundant ==
  \A i \in NewlyProcessed :
    /\ locals[i].resolved = locals[i].found
    /\ locals[i].found = {} =>
         \A k \in 1..Len(locals[i].email_domains) :
           infer_country_from_tld(locals[i].email_domains[k]) = {}

\* find_country_codes returned nothing for an author with an email domain
C21_Witness ==
  \E i \in NewlyProcessed :
    /\ locals[i].found = {}
    /\ locals[i].email_domains # <<>>
    /\ locals[i].resolved = {}

\* the member is a key of the code table and its display name has a TOEFL entry
InBothTables(code) ==
  /\ DictHas(university_data.code_to_country_name, code)
  /\ DictHas(toefl_requirements,
             Lower(DictGet(university_data.code_to_country_name, code)))

\* the author's only country evidence is a self-reported text that is no table code
OnlySelfReportedText(i) ==
  /\ locals[i].path = "resolved"
  /\ locals[i].resolved = {}
  /\ \A t \in locals[i].current_country :
       ~DictHas(university_data.code_to_country_name, t)

\* C22 (members outside the tables): a record whose label the loop set to 1 has a
\* member of its country set that is a key of the code table and whose display
\* name has a TOEFL entry; an author whose only country evidence is a
\* self-reported text that is no table code gets label 0 from the loop and keeps
\* it, with the text as country field, through the final validation.
C22_NoUpgradeOutsideTables ==
  /\ \A i \in Resolved :
       (\A code \in locals[i].country_codes : ~InBothTables(code))
         => english_speaker_list[i] = 0
  /\ \A i \in NewlyProcessed :
       OnlySelfReportedText(i) =>
         /\ english_speaker_list[i] = 0
         /\ education_countries_list[i] =
              Cell(CHOOSE t \in locals[i].current_country : TRUE)
         /\ pc = "done" => out[i].english_speaker = 0

\* the display name of an exempt country, self-reported, is the only evidence
C22_Witness ==
  /\ pc = "done"
  /\ \E i \in NewlyProcessed :
       /\ OnlySelfReportedText(i)
       /\ \E t \in locals[i].current_country :
            /\ DictHas(toefl_requirements, Lower(t))
            /\ DictGet(toefl_requirements, Lower(t)) = <<"E","x","e","m","p","t">>
       /\ out[i].english_speaker = 0

\* what the iteration for row k appends
RowResult(k) ==
  IF df[k].author_name \in authors_with_labels
  THEN PreservedResult(df[k], cleaned[k])
  ELSE LET r == Resolve(df[k], columns[k])
       IN  [education_countries |-> r.education_countries,
            english_speaker |-> r.english_speaker]

\* C24 (one result per record): while the loop is at record idx both lists have
\* length idx - 1 and their entry k is the result computed from row k; the
\* returned table has one row per input row, row k being what the loop appended
\* for row k or its reset by the final validation.
C24_OneResultPerRecord ==
  /\ pc = "loop" =>
       /\ idx - 1 <= Len(df)
       /\ Len(education_countries_list) = idx - 1
       /\ Len(english_speaker_list) = idx - 1
       /\ \A k \in 1..(idx - 1) :
            [education_countries |-> education_countries_list[k],
             english_speaker |-> english_speaker_list[k]] = RowResult(k)
  /\ pc = "done" =>
       /\ Len(education_countries_list) = Len(df)
       /\ Len(english_speaker_list) = Len(df)
       /\ Len(out) = Len(df)
       /\ \A k \in 1..Len(df) :
            out[k] \in {[education_countries |-> education_countries_list[k],
                         english_speaker |-> english_speaker_list[k]],
                        [education_countries |-> NaN, english_speaker |-> -1]}

\* a table of two records, one on the preserved path and one on the no-data path
C24_Witness ==
  /\ pc = "done" /\ Len(df) = 2 /\ Len(out) = 2
  /\ \E i, j \in 1..Len(locals) :
       locals[i].path = "preserved" /\ locals[j].path = "no_data"

\* C28 (signal hand-over): for every newly processed author the institution names
\* passed to find_country_codes are the names extract_institutions_from_education
\* returns for the author's education_background.
C28_HandOverLossless ==
  \A i \in NewlyProcessed :
    locals[i].institutions =
      extract_institutions_from_education(df[i].education_background)

\* no consulted reference code is blank: no member of a resolved country set is
HasBlankCode == \E i \in Resolved : <<>> \in locals[i].country_codes

\* C30 (sweep is idle): with unique author names and no blank reference code the
\* loop leaves every record with label -1 exactly when its country field is null,
\* no country field is blank, and the final validation returns every record as
\* the loop left it.
C30_SweepChangesNothing ==
  (UniqueNames /\ ~HasBlankCode) =>
    /\ \A k \in 1..Len(english_speaker_list) :
         /\ english_speaker_list[k] = -1 <=> education_countries_list[k].isna
         /\ ~education_countries_list[k].isna =>
              Strip(education_countries_list[k].text) # <<>>
    /\ pc = "done" =>
         \A k \in 1..Len(out) :
           out[k] = [education_countries |-> education_countries_list[k],
                     english_speaker |-> english_speaker_list[k]]

\* a finished pass over two authors, one preserved and reset, one resolved
C30_Witness ==
  /\ pc = "done" /\ UniqueNames /\ ~HasBlankCode /\ Len(df) = 2
  /\ \E i, j \in 1..Len(locals) :
       /\ locals[i].path = "preserved" /\ english_speaker_list[i] = -1
       /\ locals[j].path = "resolved" /\ english_speaker_list[j] \in {0, 1}
----------------------------------------------------------------------------
(* C29 *)

\* visits the scan settled with a fuzzy match
FuzzyVisits == {k \in 1..Len(visits) : visits[k].how = "fuzzy"}

\* C29 (effective fuzzy threshold): in every fuzzy match the normalized candidate
\* name and the matched key both have length 4 or more, and one contains the other.
C29_FuzzyNeedsFour ==
  \A k \in FuzzyVisits :
    LET uni_name == items[visits[k].scanned].key
    IN  /\ Len(visits[k].name) >= 4
        /\ Len(uni_name) >= 4
        /\ Contains(visits[k].name, uni_name) \/ Contains(uni_name, visits[k].name)

\* a name of length 3 contained in a key, and a name containing a key of length 3,
\* both scanned to the end without a match; a third scan could still match
C29_Witness ==
  /\ fpc = "returned" /\ Len(visits) = 2
  /\ \E k \in 1..2 :
       /\ visits[k].how = "none" /\ visits[k].scanned = Len(items)
       /\ \/ /\ Len(visits[k].name) = 3
             /\ \E j \in 1..Len(items) : Contains(visits[k].name, items[j].key)
          \/ \E j \in 1..Len(items) :
               Len(items[j].key) = 3 /\ Contains(items[j].key, visits[k].name)
  /\ FuzzyVisits # {}
----------------------------------------------------------------------------
(* C23 *)

\* the records load_universities_data has been through
RecordsRead == [i \in 1..(uni_at - 1) |-> universities_file.items[i].rec]

\* an assignment table[key] = value, the at-th of the run
Write(at, key, value) == [at |-> at, key |-> key, value |-> value]

\* line 61: one assignment per domain of every record, in file order
DomainWrites ==
  UNION {{Write(100 * i + j, Lower(RecordsRead[i].domains[j]),
                RecordsRead[i].alpha_two_code) :
            j \in 1..Len(RecordsRead[i].domains)} : i \in 1..Len(RecordsRead)}

\* lines 63-66: one assignment per record with a non-empty normalized name
InstitutionWrites ==
  {Write(i, normalize_institution_name(RecordsRead[i].name),
         RecordsRead[i].alpha_two_code) :
     i \in {h \in 1..Len(RecordsRead) :
              normalize_institution_name(RecordsRead[h].name) # <<>>}}

\* lines 68-69: the records that offer a display name for their code
NameWrites ==
  {Write(i, RecordsRead[i].alpha_two_code, RecordsRead[i].country) :
     i \in {h \in 1..Len(RecordsRead) :
              RecordsRead[h].alpha_two_code # <<>> /\ RecordsRead[h].country # <<>>}}

WritesOf(writes, key) == {w \in writes : w.key = key}

FirstWrite(writes, key) ==
  CHOOSE w \in WritesOf(writes, key) : \A v \in WritesOf(writes, key) : w.at <= v.at

LastWrite(writes, key) ==
  CHOOSE w \in WritesOf(writes, key) : \A v \in WritesOf(writes, key) : v.at <= w.at

\* the table holds every written key once, at the position of its first write
KeysInFirstWriteOrder(table, writes) ==
  /\ DictKeys(table) = {w.key : w \in writes}
  /\ \A p, q \in 1..Len(table) :
       p < q => FirstWrite(writes, table[p].key).at < FirstWrite(writes, table[q].key).at

\* C23 (reference loader duplicates): the institution table maps a normalized name
\* to the code of the last record with that name, the domain table maps a
\* lowercased domain to the code of the last record listing it, both keeping a key
\* at the position of its first insertion; the code-to-display-name table maps a
\* code to the first non-empty display name a record with that code carries.
C23_LoaderDuplicates ==
  /\ KeysInFirstWriteOrder(loaded.institution_to_country, InstitutionWrites)
  /\ \A p \in 1..Len(loaded.institution_to_country) :
       LET e == loaded.institution_to_country[p]
       IN  e.value = LastWrite(InstitutionWrites, e.key).value
  /\ KeysInFirstWriteOrder(loaded.domain_to_country, DomainWrites)
  /\ \A p \in 1..Len(loaded.domain_to_country) :
       LET e == loaded.domain_to_country[p]
       IN  e.value = LastWrite(DomainWrites, e.key).value
  /\ KeysInFirstWriteOrder(loaded.code_to_country_name, NameWrites)
  /\ \A p \in 1..Len(loaded.code_to_country_name) :
       LET e == loaded.code_to_country_name[p]
       IN  e.value = FirstWrite(NameWrites, e.key).value

\* a loaded directory in which a name written first and again later is followed by
\* other keys, a domain was written twice in different case, and a code was
\* offered two display names
C23_Witness ==
  /\ lpc = "toefl"
  /\ \E w \in InstitutionWrites :
       /\ LastWrite(InstitutionWrites, w.key).value # FirstWrite(InstitutionWrites, w.key).value
       /\ \E p, q \in 1..Len(loaded.institution_to_country) :
            /\ p < q /\ loaded.institution_to_country[p].key = w.key
            /\ FirstWrite(InstitutionWrites, loaded.institution_to_country[q].key).at
                 < LastWrite(InstitutionWrites, w.key).at
  /\ \E w \in DomainWrites :
       LastWrite(DomainWrites, w.key).value # FirstWrite(DomainWrites, w.key).value
  /\ \E w \in NameWrites :
       LastWrite(NameWrites, w.key).value # FirstWrite(NameWrites, w.key).value
----------------------------------------------------------------------------
(* run_pipeline.py: main *)

StageOrder == <<"extract", "fetch", "labels", "merge", "tokenize">>

\* what a stage can give back: a usable result, None, an empty author table, or
\* an exception
ExtractResults == {"ok", "none", "empty", "raised"}

StageResults == {"ok", "none", "empty", "raised"}

TokenizeResults == {"ok", "raised"}

\* lines 35, 58, 88, 104: only the author table is tested for emptiness
Usable(name, r) == r = "ok" \/ (r = "empty" /\ name # "extract")

\* texts typed at a prompt
Inputs == {<<"y","e","s">>, <<"y">>, <<"Y","E","S">>, <<"Y","e","s">>, <<"n","o">>, <<"n">>, <<>>, <<" ","y","e","s">>}

\* lines 52, 75, 120
Accepted(user_input) == Lower(user_input) \in {<<"y","e","s">>, <<"y">>}

PipeInit ==
  /\ MainIdle /\ FindIdle /\ PaperIdle /\ LoadIdle /\ RetryIdle /\ FetchIdle
  /\ stage_at = "extract" /\ stages_run = <<>> /\ outcomes = <<>>
  /\ answers = <<>> /\ completion = FALSE

\* a try block around one stage: any result but a usable one returns from main
RunStage(name, results, next) ==
  /\ stage_at = name
  /\ \E r \in results :
       /\ stages_run' = Append(stages_run, name)
       /\ outcomes' = Append(outcomes, r)
       /\ stage_at' = IF Usable(name, r) THEN next ELSE "returned"
  /\ UNCHANGED <<answers, completion>>
  /\ UNCHANGED exceptPipe

\* lines 33-42
ExtractStage == RunStage("extract", ExtractResults, "ask_fetch")

\* variant: the stage is started whatever was typed
AskFetch_AnyAnswer ==
  /\ stage_at = "ask_fetch"
  /\ \E user_input \in Inputs : answers' = Append(answers, user_input)
  /\ stage_at' = "fetch"
  /\ UNCHANGED <<stages_run, outcomes, completion>>
  /\ UNCHANGED exceptPipe

\* lines 51-54
AskFetch ==
  /\ stage_at = "ask_fetch"
  /\ \E user_input \in Inputs :
       /\ answers' = Append(answers, user_input)
       /\ stage_at' = IF Accepted(user_input) THEN "fetch" ELSE "returned"
  /\ UNCHANGED <<stages_run, outcomes, completion>>
  /\ UNCHANGED exceptPipe

\* lines 56-65
FetchStage == RunStage("fetch", StageResults, "ask_labels")

\* lines 74-84: declining prints the completion banner and returns
AskLabels ==
  /\ stage_at = "ask_labels"
  /\ \E user_input \in Inputs :
       /\ answers' = Append(answers, user_input)
       /\ stage_at' = IF Accepted(user_input) THEN "labels" ELSE "returned"
       /\ completion' = ~Accepted(user_input)
  /\ UNCHANGED <<stages_run, outcomes>>
  /\ UNCHANGED exceptPipe

\* lines 86-95
LabelsStage == RunStage("labels", StageResults, "merge")

\* lines 102-111
MergeStage == RunStage("merge", StageResults, "ask_tokenize")

\* lines 119-120, 128-129
AskTokenize ==
  /\ stage_at = "ask_tokenize"
  /\ \E user_input \in Inputs :
       /\ answers' = Append(answers, user_input)
       /\ stage_at' = IF Accepted(user_input) THEN "tokenize" ELSE "report"
  /\ UNCHANGED <<stages_run, outcomes, completion>>
  /\ UNCHANGED exceptPipe

\* lines 121-127
TokenizeStage == RunStage("tokenize", TokenizeResults, "report")

\* lines 131-140
ReportCompletion ==
  /\ stage_at = "report"
  /\ completion' = TRUE
  /\ stage_at' = "returned"
  /\ UNCHANGED <<stages_run, outcomes, answers>>
  /\ UNCHANGED exceptPipe

PipeNext ==
  \/ ExtractStage
  \/ AskFetch
  \/ FetchStage
  \/ AskLabels
  \/ LabelsStage
  \/ MergeStage
  \/ AskTokenize
  \/ TokenizeStage
  \/ ReportCompletion

SpecPipeline == PipeInit /\ [][PipeNext]_vars

----------------------------------------------------------------------------
(* C25 *)

\* the prompt that must have been answered before the n-th stage starts (0: none)
PromptBefore(n) == IF n = 1 THEN 0 ELSE IF n = 2 THEN 1 ELSE IF n = 5 THEN 3 ELSE 2

\* the stages that come before the n-th prompt
StagesBeforePrompt(n) == IF n = 1 THEN 1 ELSE IF n = 2 THEN 2 ELSE 4

AllStagesUsable == \A j \in 1..Len(outcomes) : Usable(stages_run[j], outcomes[j])

\* the gating of the stages: fixed order, every earlier stage usable, the
\* preceding prompt accepted, nothing after a failure or a refusal
StagesGated ==
  /\ Len(stages_run) <= Len(StageOrder) /\ Len(outcomes) = Len(stages_run)
  /\ \A k \in 1..Len(stages_run) :
       /\ stages_run[k] = StageOrder[k]
       /\ \A j \in 1..(k - 1) : Usable(stages_run[j], outcomes[j])
       /\ PromptBefore(k) > 0 =>
            /\ PromptBefore(k) <= Len(answers)
            /\ Accepted(answers[PromptBefore(k)])
  /\ \A n \in 1..Len(answers) :
       /\ StagesBeforePrompt(n) <= Len(stages_run)
       /\ ~Accepted(answers[n]) =>
            Len(answers) = n /\ Len(stages_run) = StagesBeforePrompt(n)

\* C25 (stage gating): the stages run in the fixed order, a stage starts only
\* after every earlier stage gave a usable result and the prompt before it was
\* answered yes or y, and nothing runs after a failure or a refusal; completion
\* is reported when tokenization ran without raising, when tokenization was
\* declined, and when labelling was declined, and in no other case.
C25_StageGating ==
  /\ StagesGated
  /\ completion =>
       /\ AllStagesUsable
       /\ \/ Len(answers) = 2 /\ ~Accepted(answers[2])
          \/ Len(answers) = 3 /\ ~Accepted(answers[3])
          \/ Len(stages_run) = 5
  /\ stage_at = "returned" =>
       (completion <=>
          /\ AllStagesUsable
          /\ Len(answers) >= 2
          /\ ~Accepted(answers[Len(answers)]) \/ Len(stages_run) = 5)

\* C25 as stated: completion is reported after a refusal only when the refused
\* stage is tokenization.
C25_CompletionOnlyPastMerge ==
  /\ StagesGated
  /\ completion => Len(stages_run) >= 4 /\ Len(answers) = 3

\* main returned after labelling was declined, with the completion banner
C25_Witness ==
  /\ stage_at = "returned" /\ completion
  /\ Len(answers) = 2 /\ ~Accepted(answers[2])
  /\ stages_run = <<"extract", "fetch">>
----------------------------------------------------------------------------
(* collect_paper_data.py: safe_get_json *)

MaxAttempts == 3

Statuses == {200, 404, 429, 503}

\* the body of a response: a JSON object, the JSON object of a rate-limit error,
\* text that is not JSON, the JSON value null
Bodies == {"object", "rate_limit", "invalid", "null"}

\* what requests.get gives: a response, or a RequestException
Response(status, body) == [kind |-> "response", status |-> status, body |-> body]

NoResponse == [kind |-> "error", status |-> 0, body |-> "invalid"]

\* line 68
Busy(r) == r.status = 429 \/ r.status >= 500

\* line 74: resp.json() returns
ParsesAsJson(r) == r.body # "invalid"

\* line 80: the membership test needs a container; on null it is a TypeError
NameTestFails(r) == r.body = "null"

\* line 80
IsRateLimitError(r) == r.body = "rate_limit"

RetryInit ==
  /\ MainIdle /\ FindIdle /\ PaperIdle /\ LoadIdle /\ PipeIdle /\ FetchIdle
  /\ max_attempts \in 0..MaxAttempts
  /\ attempt = 0 /\ responses = <<>> /\ rpc = "loop"

\* one request of the loop (lines 64-66) and where the iteration ends
Request(r, next) ==
  /\ rpc = "loop" /\ attempt < max_attempts
  /\ responses' = Append(responses, r)
  /\ attempt' = attempt + 1
  /\ rpc' = next
  /\ UNCHANGED max_attempts
  /\ UNCHANGED exceptRetry

\* lines 68-71
BusyStatus ==
  \E s \in Statuses, b \in Bodies :
    /\ Busy(Response(s, b))
    /\ Request(Response(s, b), "loop")

\* lines 73-78
InvalidJson ==
  \E s \in Statuses, b \in Bodies :
    /\ ~Busy(Response(s, b)) /\ ~ParsesAsJson(Response(s, b))
    /\ Request(Response(s, b), "loop")

\* line 80: the TypeError is not a RequestException and leaves the function
NameTestRaises ==
  \E s \in Statuses, b \in Bodies :
    /\ ~Busy(Response(s, b)) /\ ParsesAsJson(Response(s, b))
    /\ NameTestFails(Response(s, b))
    /\ Request(Response(s, b), "raised")

\* lines 80-83
RateLimitBody ==
  \E s \in Statuses, b \in Bodies :
    /\ ~Busy(Response(s, b)) /\ ParsesAsJson(Response(s, b))
    /\ ~NameTestFails(Response(s, b)) /\ IsRateLimitError(Response(s, b))
    /\ Request(Response(s, b), "loop")

\* line 85
ReturnData ==
  \E s \in Statuses, b \in Bodies :
    /\ ~Busy(Response(s, b)) /\ ParsesAsJson(Response(s, b))
    /\ ~NameTestFails(Response(s, b)) /\ ~IsRateLimitError(Response(s, b))
    /\ Request(Response(s, b), "returned")

\* lines 87-89
ConnectionError == Request(NoResponse, "loop")

\* lines 91-92
GiveUp ==
  /\ rpc = "loop" /\ attempt >= max_attempts
  /\ rpc' = "none"
  /\ UNCHANGED <<max_attempts, attempt, responses>>
  /\ UNCHANGED exceptRetry

RetryNext ==
  \/ BusyStatus
  \/ InvalidJson
  \/ NameTestRaises
  \/ RateLimitBody
  \/ ReturnData
  \/ ConnectionError
  \/ GiveUp

SpecRetry == RetryInit /\ [][RetryNext]_vars

----------------------------------------------------------------------------
(* C26 *)

\* a response with a status other than 429 and below 500 that parses as JSON and
\* is not a RateLimitError body
Qualifying ==
  {k \in 1..Len(responses) :
     /\ responses[k].kind = "response"
     /\ ~Busy(responses[k])
     /\ ParsesAsJson(responses[k])
     /\ ~IsRateLimitError(responses[k])}

\* C26 (retry bound): at most max_attempts requests are made; the first qualifying
\* response is returned and no request follows it; None is returned exactly when
\* the function has ended and all max_attempts attempts failed.
C26_RetryBound ==
  /\ Len(responses) <= max_attempts
  /\ \A k \in Qualifying : k = Len(responses) /\ rpc = "returned"
  /\ rpc = "returned" => Len(responses) \in Qualifying
  /\ rpc = "none" <=>
       (rpc # "loop" /\ Len(responses) = max_attempts /\ Qualifying = {})

\* the same for responses whose JSON value is an object
RetryBoundForObjects ==
  (\A k \in 1..Len(responses) : ~NameTestFails(responses[k])) => C26_RetryBound
----------------------------------------------------------------------------
(* fetch_profiles.py: fetch_author_profiles *)

MaxAuthors == 3

AuthorNames == {"a", "b"}

BatchSizes == 1..(MaxAuthors + 1)

\* what the profile search does for one author
SearchOutcomes == {"found", "nothing", "raises"}

\* lines 117-129: the record of one author
process_author(author_name, search) ==
  [author_name |-> author_name,
   profile |-> IF search = "found" THEN "extracted" ELSE "empty"]

FetchInit ==
  /\ MainIdle /\ FindIdle /\ PaperIdle /\ LoadIdle /\ PipeIdle /\ RetryIdle
  /\ author_names \in SeqsUpTo(AuthorNames, MaxAuthors)
  /\ batch_size \in BatchSizes
  /\ client_ok \in BOOLEAN
  /\ batch_num = 0 /\ row_at = 1 /\ searches = <<>> /\ enhanced_data = <<>>
  /\ gpc = "client"

\* line 162
total_batches == (Len(author_names) + batch_size - 1) \div batch_size

\* line 165
start_idx == batch_num * batch_size

\* line 166
end_idx ==
  IF (batch_num + 1) * batch_size < Len(author_names)
  THEN (batch_num + 1) * batch_size
  ELSE Len(author_names)

\* lines 156-159
NoClient ==
  /\ gpc = "client" /\ ~client_ok
  /\ gpc' = "no_client"
  /\ UNCHANGED <<author_names, batch_size, client_ok, batch_num, row_at, searches,
                 enhanced_data>>
  /\ UNCHANGED exceptFetch

\* lines 156-162
StartBatches ==
  /\ gpc = "client" /\ client_ok
  /\ gpc' = "batches"
  /\ UNCHANGED <<author_names, batch_size, client_ok, batch_num, row_at, searches,
                 enhanced_data>>
  /\ UNCHANGED exceptFetch

\* lines 164-167: iloc[start_idx:end_idx], positions counted from 1 here
StartBatch ==
  /\ gpc = "batches" /\ batch_num < total_batches
  /\ row_at' = start_idx + 1
  /\ gpc' = "rows"
  /\ UNCHANGED <<author_names, batch_size, client_ok, batch_num, searches, enhanced_data>>
  /\ UNCHANGED exceptFetch

\* lines 171-175
ProcessAuthor ==
  /\ gpc = "rows" /\ row_at <= end_idx
  /\ \E search \in SearchOutcomes :
       /\ searches' = Append(searches, [row |-> row_at, search |-> search])
       /\ enhanced_data' = Append(enhanced_data, process_author(author_names[row_at], search))
  /\ row_at' = row_at + 1
  /\ UNCHANGED <<author_names, batch_size, client_ok, batch_num, gpc>>
  /\ UNCHANGED exceptFetch

\* lines 171, 177-182: the slice is exhausted
EndBatch ==
  /\ gpc = "rows" /\ row_at > end_idx
  /\ batch_num' = batch_num + 1
  /\ gpc' = "batches"
  /\ UNCHANGED <<author_names, batch_size, client_ok, row_at, searches, enhanced_data>>
  /\ UNCHANGED exceptFetch

\* lines 164, 184: the frame is built from the list
EndBatches ==
  /\ gpc = "batches" /\ batch_num >= total_batches
  /\ gpc' = "statistics"
  /\ UNCHANGED <<author_names, batch_size, client_ok, batch_num, row_at, searches,
                 enhanced_data>>
  /\ UNCHANGED exceptFetch

\* lines 186-192
ReturnProfiles ==
  /\ gpc = "statistics" /\ enhanced_data # <<>>
  /\ gpc' = "returned"
  /\ UNCHANGED <<author_names, batch_size, client_ok, batch_num, row_at, searches,
                 enhanced_data>>
  /\ UNCHANGED exceptFetch

\* line 188: the frame of an empty list has no column email_primary, KeyError
StatisticsRaise ==
  /\ gpc = "statistics" /\ enhanced_data = <<>>
  /\ gpc' = "raised"
  /\ UNCHANGED <<author_names, batch_size, client_ok, batch_num, row_at, searches,
                 enhanced_data>>
  /\ UNCHANGED exceptFetch

FetchNext ==
  \/ NoClient
  \/ StartBatches
  \/ StartBatch
  \/ ProcessAuthor
  \/ EndBatch
  \/ EndBatches
  \/ ReturnProfiles
  \/ StatisticsRaise

SpecFetch == FetchInit /\ [][FetchNext]_vars

----------------------------------------------------------------------------
(* C27 *)

\* the rows processed so far are the first rows of the table, each once, in order
BatchesPartition ==
  /\ \A k \in 1..Len(searches) : searches[k].row = k
  /\ Len(searches) <= Len(author_names)
  /\ Len(enhanced_data) = Len(searches)
  /\ gpc \in {"statistics", "returned", "raised"} => Len(searches) = Len(author_names)

\* one record per processed author, carrying the input name; an empty profile
\* when the search found nothing or raised
OneRecordEach ==
  \A k \in 1..Len(enhanced_data) :
    /\ enhanced_data[k].author_name = author_names[k]
    /\ searches[k].search \in {"nothing", "raises"} => enhanced_data[k].profile = "empty"

\* C27 (one profile per author): with a client, the function returns, and what it
\* returns has one record per input author, in input order, with the input name,
\* the profile empty when the search found nothing or raised; the batches leave
\* no author out and process none twice.
C27_OneProfilePerAuthor ==
  /\ BatchesPartition
  /\ OneRecordEach
  /\ gpc # "raised"
  /\ gpc = "returned" => Len(enhanced_data) = Len(author_names)

\* the same for a table with at least one author
OneProfilePerAuthorIfAny ==
  author_names # <<>> => C27_OneProfilePerAuthor
============================================================================
